---------------------------- MODULE Spec2Model ----------------------------
(***************************************************************************)
(* Verification model of the Lodestone backend core:                       *)
(*   - the BackupScheduler task spawned by MinecraftBedrockInstance::      *)
(*     restore (src/src/implementations/minecraft_bedrock/mod.rs), and     *)
(*   - the Configurable Manifest engine                                    *)
(*     (src/src/traits/t_configurable/manifest.rs).                        *)
(***************************************************************************)
EXTENDS Integers, Sequences, FiniteSets, TLC

(***************************************************************************)
(* Bounds of the model.                                                    *)
(***************************************************************************)
\* most instructions waiting in the (unbounded) instruction channel
MaxQueue == 2
\* largest backup period, in seconds, that is ever configured
MaxPeriod == 5
\* most instances ever created through one InstanceManager
MaxCreated == 3
\* i32 and f32 payloads and bounds range over -IntSpan..IntSpan
IntSpan == 2
\* u32 payloads and bounds range over 0..UIntSpan
UIntSpan == 2
\* most instructions sent while the sends are recorded
MaxSent == 3
\* most lifecycle events kept in the record of emitted events
MaxEvents == 4

(***************************************************************************)
(* Option<u32>                                                             *)
(***************************************************************************)
NoneNum == [some |-> FALSE, v |-> 0]
SomeNum(n) == [some |-> TRUE, v |-> n]

NumOptions(S) == {NoneNum} \cup {SomeNum(n) : n \in S}

(***************************************************************************)
(* Option<String>, for the regex of a String type.  A String is the        *)
(* sequence of its characters; a regex pattern is named by its text.       *)
(***************************************************************************)
NoneStr == [some |-> FALSE, v |-> ""]
SomeStr(p) == [some |-> TRUE, v |-> p]

(***************************************************************************)
(* crate::error::Error, as type_check and the manifest build it            *)
(***************************************************************************)
Ok == [kind |-> "Ok", source |-> ""]
Err(kind, source) == [kind |-> kind, source |-> source]
IsOk(r) == r.kind = "Ok"
IsErr(r) == r.kind # "Ok"

(***************************************************************************)
(* enum ConfigurableValue.  num holds the payload of Integer,              *)
(* UnsignedInteger, Float and Boolean (0 or 1), str the payload of String  *)
(* and Enum.  The f32 NaN is the Float value whose str is <<"NaN">>.       *)
(* Option<ConfigurableValue>::None is NoValue.                             *)
(***************************************************************************)
VString(s) == [tag |-> "String", num |-> 0, str |-> s]
VInteger(n) == [tag |-> "Integer", num |-> n, str |-> <<>>]
VUnsignedInteger(n) == [tag |-> "UnsignedInteger", num |-> n, str |-> <<>>]
VFloat(n) == [tag |-> "Float", num |-> n, str |-> <<>>]
VFloatNaN == [tag |-> "Float", num |-> 0, str |-> <<"NaN">>]
VBoolean(b) == [tag |-> "Boolean", num |-> IF b THEN 1 ELSE 0, str |-> <<>>]
VEnum(s) == [tag |-> "Enum", num |-> 0, str |-> s]
NoValue == [tag |-> "None", num |-> 0, str |-> <<>>]
IsSome(m) == m.tag # "None"

(***************************************************************************)
(* enum ConfigurableValueType                                              *)
(***************************************************************************)
TString(regex) ==
    [tag |-> "String", regex |-> regex, min |-> NoneNum, max |-> NoneNum, options |-> <<>>]
TInteger(min, max) ==
    [tag |-> "Integer", regex |-> NoneStr, min |-> min, max |-> max, options |-> <<>>]
TUnsignedInteger(min, max) ==
    [tag |-> "UnsignedInteger", regex |-> NoneStr, min |-> min, max |-> max, options |-> <<>>]
TFloat(min, max) ==
    [tag |-> "Float", regex |-> NoneStr, min |-> min, max |-> max, options |-> <<>>]
TBoolean ==
    [tag |-> "Boolean", regex |-> NoneStr, min |-> NoneNum, max |-> NoneNum, options |-> <<>>]
TEnum(options) ==
    [tag |-> "Enum", regex |-> NoneStr, min |-> NoneNum, max |-> NoneNum, options |-> options]

(***************************************************************************)
(* The values and types the model draws its inputs from                    *)
(***************************************************************************)
Str_abc == <<"a", "b", "c">>
Str_ABC == <<"A", "B", "C">>
Str_empty == <<>>
Strings == {Str_abc, Str_ABC, Str_empty}
EnumTags == {<<"x">>, <<"y">>, <<"z">>}
LowerCase == {"a", "b", "c", "x", "y", "z"}
UpperCase == {"A", "B", "C"}

Re_lower == "^[a-z]+$"
Re_upper == "^[A-Z]*$"
Re_broken == "("
Patterns == {Re_lower, Re_upper, Re_broken}

Ints == (0 - IntSpan)..IntSpan
UInts == 0..UIntSpan

AllValues ==
    {VString(s) : s \in Strings} \cup {VInteger(n) : n \in Ints}
    \cup {VUnsignedInteger(n) : n \in UInts} \cup {VFloat(n) : n \in Ints}
    \cup {VFloatNaN} \cup {VBoolean(b) : b \in BOOLEAN} \cup {VEnum(t) : t \in EnumTags}

AllTypes ==
    {TString(r) : r \in {NoneStr} \cup {SomeStr(p) : p \in Patterns}}
    \cup {TInteger(lo, hi) : lo \in NumOptions(Ints), hi \in NumOptions(Ints)}
    \cup {TUnsignedInteger(lo, hi) : lo \in NumOptions(UInts), hi \in NumOptions(UInts)}
    \cup {TFloat(lo, hi) : lo \in NumOptions(Ints), hi \in NumOptions(Ints)}
    \cup {TBoolean}
    \cup {TEnum(o) : o \in {<<>>, <<(<<"x">>)>>, <<(<<"x">>), (<<"y">>)>>}}

(***************************************************************************)
(* fancy_regex, for the patterns of the model                              *)
(***************************************************************************)
\* Regex::new(pattern) is Ok
RegexNew(pattern) == pattern \in {Re_lower, Re_upper}

\* an is_match that does not look at the case of the letters
RegexIsMatchIgnoreCase(pattern, text) ==
    CASE pattern \in {Re_lower, Re_upper} ->
             \A i \in 1..Len(text) : text[i] \in LowerCase \cup UpperCase
      [] OTHER -> FALSE

\* regex.is_match(text) is Ok(true)
RegexIsMatch(pattern, text) ==
    CASE pattern = Re_lower -> Len(text) >= 1 /\ \A i \in 1..Len(text) : text[i] \in LowerCase
      [] pattern = Re_upper -> \A i \in 1..Len(text) : text[i] \in UpperCase
      [] OTHER -> FALSE

\* Vec::contains
Contains(seq, x) == \E i \in 1..Len(seq) : seq[i] = x

\* PartialOrd on f32: every comparison with NaN is false
IsNaN(value) == value.tag = "Float" /\ value.str = <<"NaN">>

\* a lower bound that is exclusive
LessThanOrEqual(value, bound) == ~IsNaN(value) /\ value.num <= bound

\* value < min and value > max, as the arm of value's variant compares them
LessThan(value, bound) == ~IsNaN(value) /\ value.num < bound
GreaterThan(value, bound) == ~IsNaN(value) /\ value.num > bound

(***************************************************************************)
(* ConfigurableValueType::type_check                                       *)
(***************************************************************************)
\* the three numeric arms: min is checked first, then max
BoundCheck(ty, value) ==
    IF ty.min.some /\ LessThan(value, ty.min.v)
    THEN Err("BadRequest", "Value is too small")
    ELSE IF ty.max.some /\ GreaterThan(value, ty.max.v)
    THEN Err("BadRequest", "Value is too large")
    ELSE Ok

\* the String arm
RegexCheck(ty, value) ==
    IF ty.regex.some
    THEN IF RegexNew(ty.regex.v)
         THEN IF RegexIsMatch(ty.regex.v, value.str)
              THEN Ok
              ELSE Err("BadRequest", "Value does not match regex")
         ELSE Err("BadRequest", "Invalid regex")
    ELSE Ok

\* the Enum arm
EnumCheck(ty, value) ==
    IF Contains(ty.options, value.str)
    THEN Ok
    ELSE Err("BadRequest", "Value is not in enum")

\* a type_check whose Integer arm also takes UnsignedInteger values
type_check_lenient(ty, value) ==
    CASE ty.tag = "String" /\ value.tag = "String" -> RegexCheck(ty, value)
      [] ty.tag = "Integer" /\ value.tag \in {"Integer", "UnsignedInteger"} -> BoundCheck(ty, value)
      [] ty.tag = "UnsignedInteger" /\ value.tag = "UnsignedInteger" -> BoundCheck(ty, value)
      [] ty.tag = "Float" /\ value.tag = "Float" -> BoundCheck(ty, value)
      [] ty.tag = "Boolean" /\ value.tag = "Boolean" -> Ok
      [] ty.tag = "Enum" /\ value.tag = "Enum" -> EnumCheck(ty, value)
      [] OTHER -> Err("BadRequest", "Type mismatch")

type_check(ty, value) ==
    CASE ty.tag = "String" /\ value.tag = "String" -> RegexCheck(ty, value)
      [] ty.tag = "Integer" /\ value.tag = "Integer" -> BoundCheck(ty, value)
      [] ty.tag = "UnsignedInteger" /\ value.tag = "UnsignedInteger" -> BoundCheck(ty, value)
      [] ty.tag = "Float" /\ value.tag = "Float" -> BoundCheck(ty, value)
      [] ty.tag = "Boolean" /\ value.tag = "Boolean" -> Ok
      [] ty.tag = "Enum" /\ value.tag = "Enum" -> EnumCheck(ty, value)
      [] OTHER -> Err("BadRequest", "Type mismatch")

(***************************************************************************)
(* ConfigurableValue::infer_type                                           *)
(***************************************************************************)
\* an infer_type that lists the value's own tag as the one option of an Enum
infer_type_own_option(value) ==
    CASE value.tag = "String" -> TString(NoneStr)
      [] value.tag = "Integer" -> TInteger(NoneNum, NoneNum)
      [] value.tag = "UnsignedInteger" -> TUnsignedInteger(NoneNum, NoneNum)
      [] value.tag = "Float" -> TFloat(NoneNum, NoneNum)
      [] value.tag = "Boolean" -> TBoolean
      [] value.tag = "Enum" -> TEnum(<<value.str>>)

infer_type(value) ==
    CASE value.tag = "String" -> TString(NoneStr)
      [] value.tag = "Integer" -> TInteger(NoneNum, NoneNum)
      [] value.tag = "UnsignedInteger" -> TUnsignedInteger(NoneNum, NoneNum)
      [] value.tag = "Float" -> TFloat(NoneNum, NoneNum)
      [] value.tag = "Boolean" -> TBoolean
      [] value.tag = "Enum" -> TEnum(<<>>)

(***************************************************************************)
(* struct SettingManifest and its constructors                             *)
(***************************************************************************)
SettingManifest(setting_id, name, description, value, value_type, default_value, is_secret, is_required, is_mutable) ==
    [setting_id |-> setting_id, name |-> name, description |-> description,
     value |-> value, value_type |-> value_type, default_value |-> default_value,
     is_secret |-> is_secret, is_required |-> is_required, is_mutable |-> is_mutable]

new_required_value(setting_id, name, description, value, default_value, is_secret, is_mutable) ==
    SettingManifest(setting_id, name, description, value, infer_type(value), default_value,
                    is_secret, TRUE, is_mutable)

new_optional_value(setting_id, name, description, value, value_type, default_value, is_secret, is_mutable) ==
    SettingManifest(setting_id, name, description, value, value_type, default_value,
                    is_secret, FALSE, is_mutable)

\* a new_value_with_type that marks the setting required whatever the value
new_value_with_type_required(setting_id, name, description, value, value_type, default_value, is_secret, is_mutable) ==
    [ret |-> IF IsSome(value) THEN type_check(value_type, value) ELSE Ok,
     self |-> SettingManifest(setting_id, name, description, value, value_type,
                              default_value, is_secret, TRUE, is_mutable)]

\* Result<Self, Error>: self is meaningful when ret is Ok
new_value_with_type(setting_id, name, description, value, value_type, default_value, is_secret, is_mutable) ==
    IF IsSome(value)
    THEN [ret |-> type_check(value_type, value),
          self |-> SettingManifest(setting_id, name, description, value, value_type,
                                   default_value, is_secret, TRUE, is_mutable)]
    ELSE [ret |-> Ok,
          self |-> SettingManifest(setting_id, name, description, value, value_type,
                                   default_value, is_secret, FALSE, is_mutable)]

(***************************************************************************)
(* SettingManifest: the setters.  Each gives the Result it returns (ret)   *)
(* and the setting as the call leaves it (self).                           *)
(***************************************************************************)
\* a set_value_type_safe that commits before it looks at the type check
set_value_type_safe_unchecked(self, value) ==
    [ret |-> Ok, self |-> [self EXCEPT !.value = value]]

set_value_type_safe(self, value) ==
    LET e == type_check(self.value_type, value)
    IN IF IsErr(e)
       THEN [ret |-> Err("BadRequest", e.source), self |-> self]
       ELSE [ret |-> Ok, self |-> [self EXCEPT !.value = value]]

\* a set_value without the mutability gate
set_value_ungated(self, value) == set_value_type_safe(self, value)

set_value(self, value) ==
    IF self.is_mutable
    THEN set_value_type_safe(self, value)
    ELSE [ret |-> Err("BadRequest", "Setting is not mutable"), self |-> self]

\* a set_optional_value that forgets the required gate
set_optional_value_unrequired(self, value) ==
    IF self.is_mutable
    THEN [ret |-> Ok, self |-> [self EXCEPT !.value = value]]
    ELSE [ret |-> Err("BadRequest", "Setting is not mutable"), self |-> self]

set_optional_value(self, value) ==
    IF self.is_mutable
    THEN IF ~IsSome(value) /\ self.is_required
         THEN [ret |-> Err("BadRequest", "Setting is required"), self |-> self]
         ELSE [ret |-> Ok, self |-> [self EXCEPT !.value = value]]
    ELSE [ret |-> Err("BadRequest", "Setting is not mutable"), self |-> self]

validate_setting(self, value) ==
    IF IsSome(value)
    THEN type_check(self.value_type, value)
    ELSE IF self.is_required
    THEN Err("BadRequest", "Setting is required")
    ELSE Ok

(***************************************************************************)
(* struct SectionManifest; settings is the BTreeMap, a function from the   *)
(* keys present to the settings held under them.                           *)
(***************************************************************************)
SectionManifest(section_id, name, description, settings) ==
    [section_id |-> section_id, name |-> name, description |-> description,
     settings |-> settings]

contains_key(map, key) == key \in DOMAIN map

\* BTreeMap::insert
insert(map, key, value) ==
    [k \in DOMAIN map \cup {key} |-> IF k = key THEN value ELSE map[k]]

\* an add_setting that overwrites an entry already there
add_setting_overwriting(self, setting) ==
    [ret |-> Ok,
     self |-> [self EXCEPT !.settings = insert(self.settings, setting.setting_id, setting)]]

add_setting(self, setting) ==
    IF contains_key(self.settings, setting.setting_id)
    THEN [ret |-> Err("BadRequest", "Setting already exists"), self |-> self]
    ELSE [ret |-> Ok,
          self |-> [self EXCEPT !.settings = insert(self.settings, setting.setting_id, setting)]]

set_setting(self, setting) ==
    IF contains_key(self.settings, setting.setting_id)
    THEN [ret |-> Ok,
          self |-> [self EXCEPT !.settings = insert(self.settings, setting.setting_id, setting)]]
    ELSE [ret |-> Err("BadRequest", "Setting does not exist"), self |-> self]

\* an insert that files the setting under its human name
insert_setting_by_name(self, setting) ==
    [ret |-> Ok,
     self |-> [self EXCEPT !.settings = insert(self.settings, setting.name, setting)]]

\* SectionManifest::insert_setting returns nothing
insert_setting(self, setting) ==
    [ret |-> Ok,
     self |-> [self EXCEPT !.settings = insert(self.settings, setting.setting_id, setting)]]

\* the setting a call on a section entry leaves in the map
with_setting(self, setting_id, r) ==
    [ret |-> r.ret, self |-> [self EXCEPT !.settings[setting_id] = r.self]]

update_setting(self, setting_id, value) ==
    IF contains_key(self.settings, setting_id)
    THEN with_setting(self, setting_id, set_value(self.settings[setting_id], value))
    ELSE [ret |-> Err("NotFound", "Setting does not exist"), self |-> self]

(***************************************************************************)
(* BTreeMap iteration: keys in ascending order                             *)
(***************************************************************************)
SortedKeys(map) == SelectSeq(<<"k1", "k2", "s1", "s2">>, LAMBDA k : k \in DOMAIN map)

(***************************************************************************)
(* SectionManifest::validate_section.  A SectionManifestValue is the map   *)
(* from setting ids to the Option<ConfigurableValue> proposed for them.    *)
(***************************************************************************)
RECURSIVE validate_settings(_, _, _)
\* the for loop of validate_section over the keys still to visit
validate_settings(self, value, keys) ==
    IF keys = <<>>
    THEN Ok
    ELSE IF contains_key(self.settings, Head(keys))
    THEN LET r == validate_setting(self.settings[Head(keys)], value[Head(keys)])
         IN IF IsErr(r) THEN r ELSE validate_settings(self, value, Tail(keys))
    ELSE Err("BadRequest", "Setting not found")

\* a validate_section that passes over the ids the section does not hold
validate_section_skipping(self, value) ==
    validate_settings(self, value,
                      SelectSeq(SortedKeys(value), LAMBDA k : contains_key(self.settings, k)))

validate_section(self, value) == validate_settings(self, value, SortedKeys(value))

(***************************************************************************)
(* struct ConfigurableManifest                                             *)
(***************************************************************************)
ConfigurableManifest(auto_start, restart_on_crash, start_on_connection, timeout_last_left, setting_sections) ==
    [auto_start |-> auto_start, restart_on_crash |-> restart_on_crash,
     start_on_connection |-> start_on_connection, timeout_last_left |-> timeout_last_left,
     setting_sections |-> setting_sections]

\* get_setting_mut(section_id, setting_id) is Some
has_setting(self, section_id, setting_id) ==
    /\ contains_key(self.setting_sections, section_id)
    /\ contains_key(self.setting_sections[section_id].settings, setting_id)

\* the manifest a call on one of its settings leaves
with_manifest_setting(self, section_id, setting_id, r) ==
    [ret |-> r.ret,
     self |-> [self EXCEPT !.setting_sections[section_id].settings[setting_id] = r.self]]

set_setting_value(self, section_id, setting_id, value) ==
    IF has_setting(self, section_id, setting_id)
    THEN with_manifest_setting(self, section_id, setting_id,
             set_optional_value(self.setting_sections[section_id].settings[setting_id], value))
    ELSE [ret |-> Err("NotFound", "Setting not found"), self |-> self]

\* ConfigurableManifest::set_setting: the setting_id argument is not used
manifest_set_setting(self, section_id, setting_id, setting) ==
    IF contains_key(self.setting_sections, section_id)
    THEN LET r == set_setting(self.setting_sections[section_id], setting)
         IN [ret |-> r.ret, self |-> [self EXCEPT !.setting_sections[section_id] = r.self]]
    ELSE [ret |-> Err("NotFound", "Section not found"), self |-> self]

\* Option<bool>: Some(previous flag) or None
SomeBool(b) == [kind |-> "Some", source |-> IF b THEN "true" ELSE "false"]
NoneBool == [kind |-> "None", source |-> ""]

set_setting_mut(self, section_id, setting_id, is_mutable) ==
    IF has_setting(self, section_id, setting_id)
    THEN [ret |-> SomeBool(self.setting_sections[section_id].settings[setting_id].is_mutable),
          self |-> [self EXCEPT !.setting_sections[section_id].settings[setting_id].is_mutable
                                    = is_mutable]]
    ELSE [ret |-> NoneBool, self |-> self]

\* an update_setting_value that does not look at is_mutable
update_setting_value_ungated(self, section_id, setting_id, value) ==
    IF has_setting(self, section_id, setting_id)
    THEN with_manifest_setting(self, section_id, setting_id,
             set_value_ungated(self.setting_sections[section_id].settings[setting_id], value))
    ELSE [ret |-> Err("NotFound", "Setting not found"), self |-> self]

update_setting_value(self, section_id, setting_id, value) ==
    IF has_setting(self, section_id, setting_id)
    THEN with_manifest_setting(self, section_id, setting_id,
             set_value(self.setting_sections[section_id].settings[setting_id], value))
    ELSE [ret |-> Err("NotFound", "Setting not found"), self |-> self]

RECURSIVE validate_sections(_, _, _)
\* the for loop of validate_manifest over the section ids still to visit
validate_sections(self, value, keys) ==
    IF keys = <<>>
    THEN Ok
    ELSE IF contains_key(self.setting_sections, Head(keys))
    THEN LET r == validate_section(self.setting_sections[Head(keys)], value[Head(keys)])
         IN IF IsErr(r) THEN r ELSE validate_sections(self, value, Tail(keys))
    ELSE Err("BadRequest", "Section not found")

\* ConfigurableManifest::validate_manifest; a ManifestValue is the map from
\* section ids to SectionManifestValues
validate_manifest(self, value) == validate_sections(self, value, SortedKeys(value))

(***************************************************************************)
(* A multi-setting update: validate_manifest(candidate), then              *)
(* set_setting_value for every value of the candidate, in key order, up to *)
(* the first one that is refused.                                          *)
(***************************************************************************)
CandidatePairs(value) ==
    SelectSeq(<<(<<"s1", "k1">>), (<<"s1", "k2">>), (<<"s2", "k1">>), (<<"s2", "k2">>)>>,
              LAMBDA p : p[1] \in DOMAIN value /\ p[2] \in DOMAIN value[p[1]])

RECURSIVE apply_values(_, _, _, _)
apply_values(self, value, pairs, written) ==
    IF pairs = <<>>
    THEN [ret |-> Ok, self |-> self, written |-> written]
    ELSE LET section_id == Head(pairs)[1]
             setting_id == Head(pairs)[2]
             r == set_setting_value(self, section_id, setting_id, value[section_id][setting_id])
         IN IF IsErr(r.ret)
            THEN [ret |-> r.ret, self |-> r.self, written |-> written]
            ELSE apply_values(r.self, value, Tail(pairs), written + 1)

update_manifest(self, value) ==
    LET v == validate_manifest(self, value)
    IN IF IsErr(v)
       THEN [validated |-> v, ret |-> v, self |-> self, written |-> 0]
       ELSE LET a == apply_values(self, value, CandidatePairs(value), 0)
            IN [validated |-> v, ret |-> a.ret, self |-> a.self, written |-> a.written]

(***************************************************************************)
(* BackupScheduler: data                                                   *)
(***************************************************************************)
PeriodValues == {1, 3, MaxPeriod}
Periods == {NoneNum} \cup {SomeNum(p) : p \in PeriodValues}

\* enum BackupInstruction
SetPeriod(p) == [tag |-> "SetPeriod", period |-> p]
BackupNow == [tag |-> "BackupNow", period |-> NoneNum]
Pause == [tag |-> "Pause", period |-> NoneNum]
Resume == [tag |-> "Resume", period |-> NoneNum]
\* no instruction was received
NoInstruction == [tag |-> "None", period |-> NoneNum]
BackupInstruction == {SetPeriod(p) : p \in Periods} \cup {BackupNow, Pause, Resume}

\* enum State of the instance lifecycle
State == {"Stopped", "Starting", "Running", "Stopping"}

VARIABLES
    backup_rx,        \* instructions queued in the unbounded channel
    tx_open,          \* TRUE while a sender (the instance) is alive
    pc,               \* position of the backup task: "select", "paused", "exited"
    backup_period,    \* the task's local backup_period
    counter,          \* the task's local counter
    task_state,       \* the State mutex captured by the backup task
    instance_state,   \* the State mutex stored in the instance's state field
    last,             \* what the latest step was, the backup it made and the instruction it received
    paused_period,    \* period that was active when Pause was last consumed
    seen,             \* progress of the consumed stream through Pause, SetPeriod(5), BackupNow, Resume
    streak,           \* consecutive one-second ticks with the instance Running and nothing received
    streak_backups,   \* backups made by the ticks of the current streak
    tc_type,          \* type_check: the ConfigurableValueType it is called on
    tc_value,         \* type_check: the ConfigurableValue it is given
    tc_ret,           \* type_check: the Result it returned
    setting,          \* a SettingManifest
    setting_call,     \* the latest call on setting: op, argument, Result and the setting before it
    section,          \* a SectionManifest
    section_call,     \* the latest call on section: op, argument, Result and the section before it
    manifest,         \* a ConfigurableManifest
    manifest_call,    \* the latest call on manifest: op, arguments, Result and the manifest before it
    tc_from,          \* the value whose type was inferred into tc_type, None when tc_type was given
    fifo,             \* record of the instructions sent and of those the task took from the channel
    lifecycle,        \* restart_on_crash, whether the last stop was a crash, the events emitted
    disk,             \* an instance directory: its config file, properties file and server files
    setup_call,       \* the latest new or restore on disk: input, failing step and what it returned
    handler,          \* each request handler task: where it is, the handler it runs and its instance
    guards,           \* the locks each request handler task holds
    manager,          \* the InstanceManager: instance_collection and taken_ports
    manager_call,     \* the latest call on manager: op, arguments, Result, manager before, uuids made
    locked_instance,  \* the typed settings of the instance set_instance_setting has locked
    setting_request   \* the latest set_instance_setting request: key, value, setter outcome, Result

backup_vars == <<backup_rx, tx_open, pc, backup_period, counter, task_state,
                 instance_state, last, paused_period, seen, streak, streak_backups,
                 fifo, lifecycle>>

tc_vars == <<tc_type, tc_value, tc_ret, tc_from>>
setting_vars == <<setting, setting_call>>
section_vars == <<section, section_call>>
manifest_vars == <<manifest, manifest_call>>
setup_vars == <<disk, setup_call>>
handler_vars == <<handler, guards>>
manager_vars == <<manager, manager_call>>
request_vars == <<locked_instance, setting_request>>

vars == <<backup_vars, tc_vars, setting_vars, section_vars, manifest_vars, setup_vars, handler_vars, manager_vars, request_vars>>

Min(a, b) == IF a < b THEN a ELSE b

\* streak values above MaxPeriod are not told apart
StreakCap == MaxPeriod + 1

(***************************************************************************)
(* BackupScheduler: the handlers of the task's loop, as functions of the   *)
(* task's local variables.                                                 *)
(***************************************************************************)

\* what spawn_blocking(copy).await gives backup_now: Ok(Ok(_)), Ok(Err(_)) of
\* fs_extra, or Err(JoinError)
BackupOutcomes == {"copied", "copy_failed", "join_error"}
OutcomesOf(backup) == IF backup = "none" THEN {"none"} ELSE BackupOutcomes

\* the backup_now closure: it returns nothing; error! runs for Err(JoinError) only
backup_now(outcome) == [logged |-> outcome = "join_error"]

\* a scheduler that makes no backup on BackupNow
OnInstructionSkippingBackup(instr, period) ==
    CASE instr.tag = "SetPeriod" -> [period |-> instr.period, backup |-> "none", pc |-> "select"]
      [] instr.tag = "BackupNow" -> [period |-> period, backup |-> "none", pc |-> "select"]
      [] instr.tag = "Pause" -> [period |-> period, backup |-> "none", pc |-> "paused"]
      [] instr.tag = "Resume" -> [period |-> period, backup |-> "none", pc |-> "select"]

\* a tick arm that counts whatever the state of the instance
OnTickAnyState(period, cnt, st) ==
    IF period.some
    THEN IF cnt + 1 >= period.v
         THEN [counter |-> 0, backup |-> "periodic"]
         ELSE [counter |-> cnt + 1, backup |-> "none"]
    ELSE [counter |-> cnt, backup |-> "none"]

\* a tick arm that backs up only once the counter is above the period
OnTickLate(period, cnt, st) ==
    IF period.some /\ st = "Running"
    THEN IF cnt + 1 > period.v
         THEN [counter |-> 0, backup |-> "periodic"]
         ELSE [counter |-> cnt + 1, backup |-> "none"]
    ELSE [counter |-> cnt, backup |-> "none"]

\* tick arm of select!: returns the new counter and whether backup_now ran
OnTick(period, cnt, st) ==
    IF period.some /\ st = "Running"
    THEN IF cnt + 1 >= period.v
         THEN [counter |-> 0, backup |-> "periodic"]
         ELSE [counter |-> cnt + 1, backup |-> "none"]
    ELSE [counter |-> cnt, backup |-> "none"]

\* a scheduler whose SetPeriod starts the period over with a backup
OnInstructionRestarting(instr, period) ==
    CASE instr.tag = "SetPeriod" -> [period |-> instr.period, backup |-> "now", pc |-> "select"]
      [] instr.tag = "BackupNow" -> [period |-> period, backup |-> "now", pc |-> "select"]
      [] instr.tag = "Pause" -> [period |-> period, backup |-> "none", pc |-> "paused"]
      [] instr.tag = "Resume" -> [period |-> period, backup |-> "none", pc |-> "select"]

\* instruction arm of select!, for a received Some(instruction)
OnInstruction(instr, period) ==
    CASE instr.tag = "SetPeriod" -> [period |-> instr.period, backup |-> "none", pc |-> "select"]
      [] instr.tag = "BackupNow" -> [period |-> period, backup |-> "now", pc |-> "select"]
      [] instr.tag = "Pause" -> [period |-> period, backup |-> "none", pc |-> "paused"]
      [] instr.tag = "Resume" -> [period |-> period, backup |-> "none", pc |-> "select"]

\* a scheduler that would carry out what it receives while paused
OnPausedRecvApplying(received, period) ==
    IF received.some /\ received.v = Resume
    THEN [period |-> period, backup |-> "none", pc |-> "select"]
    ELSE IF received.some /\ received.v.tag = "SetPeriod"
    THEN [period |-> received.v.period, backup |-> "none", pc |-> "paused"]
    ELSE IF received.some /\ received.v.tag = "BackupNow"
    THEN [period |-> period, backup |-> "now", pc |-> "paused"]
    ELSE [period |-> period, backup |-> "none", pc |-> "paused"]

\* one iteration of the inner loop of the Pause arm, for the value recv() gave:
\* Some(Resume) breaks, everything else continues the inner loop
OnPausedRecv(received, period) ==
    IF received.some /\ received.v = Resume
    THEN [period |-> period, backup |-> "none", pc |-> "select"]
    ELSE [period |-> period, backup |-> "none", pc |-> "paused"]

\* instruction arm of select!, for a received None
OnChannelClosed == "exited"

\* the state the backup task locks on a tick: the Arc created for the task
ObservedState(captured, of_instance) == captured

\* progress of the consumed instructions through Pause, SetPeriod(5), BackupNow, Resume
SeenNext(s, instr) ==
    CASE s = 1 /\ instr = SetPeriod(SomeNum(MaxPeriod)) -> 2
      [] s = 2 /\ instr = BackupNow -> 3
      [] s = 3 /\ instr = Resume -> 4
      [] OTHER -> IF instr = Pause THEN 1 ELSE 0

\* the instance as restore returns it, for the restart_on_crash of its config
LifecycleOf(restart_on_crash) ==
    [restart_on_crash |-> restart_on_crash, crashed |-> FALSE, auto |-> FALSE, events |-> <<>>]

(***************************************************************************)
(* Initial state: restore has spawned the task and returned the instance.  *)
(***************************************************************************)
BackupInit ==
    /\ backup_rx = <<>>
    /\ tx_open = TRUE
    /\ pc = "select"
    /\ backup_period \in Periods
    /\ counter = 0
    /\ task_state = "Stopped"
    /\ instance_state = "Stopped"
    /\ last = [ev |-> "init", backup |-> "none", instr |-> NoInstruction,
                 outcome |-> "none", logged |-> FALSE]
    /\ paused_period = backup_period
    /\ seen = 0
    /\ streak = 0
    /\ streak_backups = 0
    /\ fifo = [sent |-> <<>>, consumed |-> <<>>]
    /\ lifecycle \in {LifecycleOf(b) : b \in BOOLEAN}

\* the backup task alone, for every State its lock of the state mutex can give
SchedulerInit ==
    /\ backup_rx = <<>>
    /\ tx_open = TRUE
    /\ pc = "select"
    /\ backup_period \in Periods
    /\ counter = 0
    /\ task_state \in State
    /\ instance_state = "Stopped"
    /\ last = [ev |-> "init", backup |-> "none", instr |-> NoInstruction,
                 outcome |-> "none", logged |-> FALSE]
    /\ paused_period = backup_period
    /\ seen = 0
    /\ streak = 0
    /\ streak_backups = 0
    /\ fifo = [sent |-> <<>>, consumed |-> <<>>]
    /\ lifecycle \in {LifecycleOf(b) : b \in BOOLEAN}

\* the backup task of an instance nobody uses
BackupIdle ==
    /\ BackupInit
    /\ backup_period = NoneNum
    /\ lifecycle = LifecycleOf(FALSE)

(***************************************************************************)
(* Actions of the environment                                              *)
(***************************************************************************)

\* backup_sender.send(instr)
Send(instr) ==
    /\ tx_open
    /\ Len(backup_rx) < MaxQueue
    /\ backup_rx' = Append(backup_rx, instr)
    /\ last' = [ev |-> "send", backup |-> "none", instr |-> NoInstruction,
                 outcome |-> "none", logged |-> FALSE]
    /\ UNCHANGED <<tx_open, pc, backup_period, counter, task_state, instance_state,
                   paused_period, seen, streak, streak_backups>>
    /\ UNCHANGED <<tc_vars, setting_vars, section_vars, manifest_vars, setup_vars, handler_vars, manager_vars, request_vars>>

\* every clone of the instance, and with it every sender, is dropped
DropSenders ==
    /\ tx_open
    /\ tx_open' = FALSE
    /\ last' = [ev |-> "close", backup |-> "none", instr |-> NoInstruction,
                 outcome |-> "none", logged |-> FALSE]
    /\ UNCHANGED <<backup_rx, pc, backup_period, counter, task_state, instance_state,
                   paused_period, seen, streak, streak_backups>>
    /\ UNCHANGED <<tc_vars, setting_vars, section_vars, manifest_vars, setup_vars, handler_vars, manager_vars, request_vars>>

\* lifecycle of the instance
Lifecycle(from, to) ==
    /\ tx_open
    /\ instance_state = from
    /\ instance_state' = to
    /\ streak' = 0
    /\ streak_backups' = 0
    /\ last' = [ev |-> "lifecycle", backup |-> "none", instr |-> NoInstruction,
                 outcome |-> "none", logged |-> FALSE]
    /\ UNCHANGED <<backup_rx, tx_open, pc, backup_period, counter, task_state,
                   paused_period, seen>>
    /\ UNCHANGED <<tc_vars, setting_vars, section_vars, manifest_vars, setup_vars, handler_vars, manager_vars, request_vars>>

Start == Lifecycle("Stopped", "Starting")
Started == Lifecycle("Starting", "Running")
Stop == Lifecycle("Running", "Stopping")
Stopped == Lifecycle("Stopping", "Stopped")
Crash == Lifecycle("Running", "Stopped")

(***************************************************************************)
(* Actions of the backup task                                              *)
(***************************************************************************)

\* a timer that is served in the inner loop of the Pause arm as well
TickWhilePaused ==
    /\ pc \in {"select", "paused"}
    /\ LET r == OnTick(backup_period, counter, ObservedState(task_state, instance_state))
           made == IF r.backup = "none" THEN 0 ELSE 1
       IN /\ counter' = r.counter
          /\ \E outcome \in OutcomesOf(r.backup) :
                 last' = [ev |-> "tick", backup |-> r.backup, instr |-> NoInstruction,
                          outcome |-> outcome, logged |-> backup_now(outcome).logged]
          /\ IF instance_state = "Running" /\ (streak > 0 \/ counter = 0)
             THEN /\ streak' = Min(streak + 1, StreakCap)
                  /\ streak_backups' = Min(streak_backups + made, 2)
             ELSE /\ streak' = 0
                  /\ streak_backups' = 0
    /\ UNCHANGED <<backup_rx, tx_open, pc, backup_period, task_state, instance_state,
                   paused_period, seen>>
    /\ UNCHANGED <<tc_vars, setting_vars, section_vars, manifest_vars, setup_vars, handler_vars, manager_vars, request_vars>>

\* select! takes the sleep arm
Tick ==
    /\ pc = "select"
    /\ LET r == OnTick(backup_period, counter, ObservedState(task_state, instance_state))
           made == IF r.backup = "none" THEN 0 ELSE 1
       IN /\ counter' = r.counter
          /\ \E outcome \in OutcomesOf(r.backup) :
                 last' = [ev |-> "tick", backup |-> r.backup, instr |-> NoInstruction,
                          outcome |-> outcome, logged |-> backup_now(outcome).logged]
          /\ IF instance_state = "Running" /\ (streak > 0 \/ counter = 0)
             THEN /\ streak' = Min(streak + 1, StreakCap)
                  /\ streak_backups' = Min(streak_backups + made, 2)
             ELSE /\ streak' = 0
                  /\ streak_backups' = 0
    /\ UNCHANGED <<backup_rx, tx_open, pc, backup_period, task_state, instance_state,
                   paused_period, seen>>
    /\ UNCHANGED <<tc_vars, setting_vars, section_vars, manifest_vars, setup_vars, handler_vars, manager_vars, request_vars>>

\* a recv arm that handles the newest instruction and empties the channel
RecvNewest ==
    /\ pc = "select"
    /\ backup_rx # <<>>
    /\ LET instr == backup_rx[Len(backup_rx)]
           r == OnInstruction(instr, backup_period)
       IN /\ backup_period' = r.period
          /\ pc' = r.pc
          /\ \E outcome \in OutcomesOf(r.backup) :
                 last' = [ev |-> "recv", backup |-> r.backup, instr |-> instr,
                          outcome |-> outcome, logged |-> backup_now(outcome).logged]
          /\ paused_period' = IF instr = Pause THEN backup_period ELSE paused_period
          /\ seen' = SeenNext(seen, instr)
    /\ backup_rx' = <<>>
    /\ streak' = 0
    /\ streak_backups' = 0
    /\ UNCHANGED <<tx_open, counter, task_state, instance_state>>
    /\ UNCHANGED <<tc_vars, setting_vars, section_vars, manifest_vars, setup_vars, handler_vars, manager_vars, request_vars>>

\* select! takes the recv arm and gets Some(instruction)
Recv ==
    /\ pc = "select"
    /\ backup_rx # <<>>
    /\ LET instr == Head(backup_rx)
           r == OnInstruction(instr, backup_period)
       IN /\ backup_period' = r.period
          /\ pc' = r.pc
          /\ \E outcome \in OutcomesOf(r.backup) :
                 last' = [ev |-> "recv", backup |-> r.backup, instr |-> instr,
                          outcome |-> outcome, logged |-> backup_now(outcome).logged]
          /\ paused_period' = IF instr = Pause THEN backup_period ELSE paused_period
          /\ seen' = SeenNext(seen, instr)
    /\ backup_rx' = Tail(backup_rx)
    /\ streak' = 0
    /\ streak_backups' = 0
    /\ UNCHANGED <<tx_open, counter, task_state, instance_state>>
    /\ UNCHANGED <<tc_vars, setting_vars, section_vars, manifest_vars, setup_vars, handler_vars, manager_vars, request_vars>>

\* select! takes the recv arm and gets None: the task exits
RecvClosed ==
    /\ pc = "select"
    /\ backup_rx = <<>>
    /\ ~tx_open
    /\ pc' = OnChannelClosed
    /\ last' = [ev |-> "exit", backup |-> "none", instr |-> NoInstruction,
                 outcome |-> "none", logged |-> FALSE]
    /\ UNCHANGED <<backup_rx, tx_open, backup_period, counter, task_state, instance_state,
                   paused_period, seen, streak, streak_backups>>
    /\ UNCHANGED <<tc_vars, setting_vars, section_vars, manifest_vars, setup_vars, handler_vars, manager_vars, request_vars>>

\* the inner loop of the Pause arm gets Some(instruction)
PausedRecv ==
    /\ pc = "paused"
    /\ backup_rx # <<>>
    /\ LET instr == Head(backup_rx)
           r == OnPausedRecv([some |-> TRUE, v |-> instr], backup_period)
       IN /\ pc' = r.pc
          /\ backup_period' = r.period
          /\ last' = [ev |-> IF r.pc = "select" THEN "resume" ELSE "drop", backup |-> r.backup,
                       instr |-> instr, outcome |-> "none", logged |-> FALSE]
          /\ seen' = SeenNext(seen, instr)
    /\ backup_rx' = Tail(backup_rx)
    /\ streak' = 0
    /\ streak_backups' = 0
    /\ UNCHANGED <<tx_open, counter, task_state, instance_state, paused_period>>
    /\ UNCHANGED <<tc_vars, setting_vars, section_vars, manifest_vars, setup_vars, handler_vars, manager_vars, request_vars>>

\* the inner loop of the Pause arm gets None
PausedRecvClosed ==
    /\ pc = "paused"
    /\ backup_rx = <<>>
    /\ ~tx_open
    /\ LET r == OnPausedRecv([some |-> FALSE, v |-> Resume], backup_period)
       IN /\ pc' = r.pc
          /\ backup_period' = r.period
          /\ last' = [ev |-> "spin", backup |-> r.backup, instr |-> NoInstruction,
                 outcome |-> "none", logged |-> FALSE]
    /\ UNCHANGED <<backup_rx, tx_open, counter, task_state, instance_state,
                   paused_period, seen, streak, streak_backups>>
    /\ UNCHANGED <<tc_vars, setting_vars, section_vars, manifest_vars, setup_vars, handler_vars, manager_vars, request_vars>>

(***************************************************************************)
(* type_check as a program: called once on a type and a value              *)
(***************************************************************************)
NotCalled == [kind |-> "NotCalled", source |-> ""]

TypeCheckInit ==
    /\ tc_type \in AllTypes
    /\ tc_value \in AllValues
    /\ tc_ret = NotCalled
    /\ tc_from = NoValue

TypeCheckIdle ==
    /\ tc_type = TBoolean
    /\ tc_value = VBoolean(TRUE)
    /\ tc_ret = NotCalled
    /\ tc_from = NoValue

TypeCheck ==
    /\ tc_ret = NotCalled
    /\ tc_ret' = type_check(tc_type, tc_value)
    /\ UNCHANGED <<tc_type, tc_value, tc_from>>
    /\ UNCHANGED <<backup_vars, setting_vars, section_vars, manifest_vars, setup_vars, handler_vars, manager_vars, request_vars>>

TypeCheckNext == TypeCheck

(***************************************************************************)
(* Infer: let t = v.infer_type(); t.type_check(&w), for values v and w     *)
(***************************************************************************)
\* no type yet
NoType == [tag |-> "None", regex |-> NoneStr, min |-> NoneNum, max |-> NoneNum, options |-> <<>>]

InferInit ==
    /\ tc_from \in AllValues
    /\ tc_value \in AllValues
    /\ tc_type = NoType
    /\ tc_ret = NotCalled

\* tc_type = tc_from.infer_type()
InferType ==
    /\ tc_type = NoType
    /\ tc_type' = infer_type(tc_from)
    /\ UNCHANGED <<tc_from, tc_value, tc_ret>>
    /\ UNCHANGED <<backup_vars, setting_vars, section_vars, manifest_vars, setup_vars, handler_vars, manager_vars, request_vars>>

\* tc_type.type_check(&tc_value) on the inferred type
CheckInferred ==
    /\ tc_type # NoType
    /\ tc_ret = NotCalled
    /\ tc_ret' = type_check(tc_type, tc_value)
    /\ UNCHANGED <<tc_type, tc_value, tc_from>>
    /\ UNCHANGED <<backup_vars, setting_vars, section_vars, manifest_vars, setup_vars, handler_vars, manager_vars, request_vars>>

InferNext == InferType \/ CheckInferred

(***************************************************************************)
(* A SettingManifest and the calls made on it                              *)
(***************************************************************************)
SettingValues ==
    {VString(Str_abc), VString(Str_ABC), VInteger(0), VInteger(IntSpan), VInteger(42),
     VUnsignedInteger(1), VFloat(1), VFloatNaN, VBoolean(TRUE), VEnum(<<"x">>), VEnum(<<"z">>)}

OptionalSettingValues == SettingValues \cup {NoValue}

SettingTypes ==
    {TString(NoneStr), TString(SomeStr(Re_lower)), TString(SomeStr(Re_broken)),
     TInteger(SomeNum(0), SomeNum(1)), TInteger(NoneNum, NoneNum),
     TUnsignedInteger(NoneNum, SomeNum(1)), TFloat(SomeNum(0), NoneNum),
     TBoolean, TEnum(<<(<<"x">>), (<<"y">>)>>), TEnum(<<>>)}

DefaultValues == {NoValue, VInteger(0)}

\* every setting a constructor returns for the given id
ConstructedSettings(id) ==
    {new_required_value(id, "name", "description", v, d, sec, mut) :
        v \in SettingValues, d \in DefaultValues, sec \in BOOLEAN, mut \in BOOLEAN}
    \cup
    {new_optional_value(id, "name", "description", m, t, d, sec, mut) :
        m \in OptionalSettingValues, t \in SettingTypes, d \in DefaultValues,
        sec \in BOOLEAN, mut \in BOOLEAN}
    \cup
    {r.self : r \in {c \in {new_value_with_type(id, "name", "description", m, t, d, sec, mut) :
                              m \in OptionalSettingValues, t \in SettingTypes,
                              d \in DefaultValues, sec \in BOOLEAN, mut \in BOOLEAN} :
                         IsOk(c.ret)}}

SettingInit ==
    /\ setting \in ConstructedSettings("k1")
    /\ setting_call = [op |-> "new", arg |-> NoValue, ret |-> Ok, old |-> setting]

SettingIdle ==
    /\ setting = new_optional_value("k1", "name", "description", NoValue, TBoolean,
                                    NoValue, FALSE, FALSE)
    /\ setting_call = [op |-> "new", arg |-> NoValue, ret |-> Ok, old |-> setting]

\* setting.set_value(value)
SetValue(value) ==
    /\ LET r == set_value(setting, value)
       IN /\ setting' = r.self
          /\ setting_call' = [op |-> "set_value", arg |-> value, ret |-> r.ret, old |-> setting]
    /\ UNCHANGED <<backup_vars, tc_vars, section_vars, manifest_vars, setup_vars, handler_vars, manager_vars, request_vars>>

\* setting.set_optional_value(value)
SetOptionalValue(value) ==
    /\ LET r == set_optional_value(setting, value)
       IN /\ setting' = r.self
          /\ setting_call' = [op |-> "set_optional_value", arg |-> value, ret |-> r.ret,
                              old |-> setting]
    /\ UNCHANGED <<backup_vars, tc_vars, section_vars, manifest_vars, setup_vars, handler_vars, manager_vars, request_vars>>

\* setting.validate_setting(&value)
ValidateSetting(value) ==
    /\ setting_call' = [op |-> "validate_setting", arg |-> value,
                        ret |-> validate_setting(setting, value), old |-> setting]
    /\ UNCHANGED setting
    /\ UNCHANGED <<backup_vars, tc_vars, section_vars, manifest_vars, setup_vars, handler_vars, manager_vars, request_vars>>

SettingNext ==
    \/ \E value \in SettingValues : SetValue(value)
    \/ \E value \in OptionalSettingValues : SetOptionalValue(value)
    \/ \E value \in OptionalSettingValues : ValidateSetting(value)

(***************************************************************************)
(* A SectionManifest and the calls made on it                              *)
(***************************************************************************)
SettingIds == {"k1", "k2"}

\* the settings that are put into sections
SectionSettings(id) ==
    {new_value_with_type(id, "name", "description", VInteger(0),
                         TInteger(SomeNum(0), SomeNum(1)), NoValue, FALSE, mut).self :
        mut \in BOOLEAN}
    \cup
    {new_optional_value(id, "name", "description", NoValue, TString(SomeStr(Re_lower)),
                        NoValue, FALSE, TRUE)}

\* the maps in which every entry is keyed by its own setting_id
KeyedMaps ==
    UNION {{m \in [ids -> UNION {SectionSettings(id) : id \in ids}] :
               \A id \in ids : m[id].setting_id = id} : ids \in SUBSET SettingIds}

NoSetting == new_optional_value("", "", "", NoValue, TBoolean, NoValue, FALSE, FALSE)

SectionInit ==
    /\ section \in {SectionManifest("s1", "name", "description", m) : m \in KeyedMaps}
    /\ section_call = [op |-> "new", arg |-> NoSetting, ret |-> Ok, old |-> section]

SectionIdle ==
    /\ section = SectionManifest("s1", "name", "description", <<>>)
    /\ section_call = [op |-> "new", arg |-> NoSetting, ret |-> Ok, old |-> section]

\* section.add_setting(s)
AddSetting(s) ==
    /\ LET r == add_setting(section, s)
       IN /\ section' = r.self
          /\ section_call' = [op |-> "add_setting", arg |-> s, ret |-> r.ret, old |-> section]
    /\ UNCHANGED <<backup_vars, tc_vars, setting_vars, manifest_vars, setup_vars, handler_vars, manager_vars, request_vars>>

\* section.set_setting(s)
SetSetting(s) ==
    /\ LET r == set_setting(section, s)
       IN /\ section' = r.self
          /\ section_call' = [op |-> "set_setting", arg |-> s, ret |-> r.ret, old |-> section]
    /\ UNCHANGED <<backup_vars, tc_vars, setting_vars, manifest_vars, setup_vars, handler_vars, manager_vars, request_vars>>

SectionNext ==
    \/ \E id \in SettingIds : \E s \in SectionSettings(id) : AddSetting(s)
    \/ \E id \in SettingIds : \E s \in SectionSettings(id) : SetSetting(s)

(***************************************************************************)
(* Manifest: a ConfigurableManifest with the one section "s1", as          *)
(* init_configurable_manifest-style constructors build it; "s2" is a       *)
(* section id the manifest does not hold.  The SectionManifest operations  *)
(* act on the section "s1" of the manifest.                                *)
(***************************************************************************)
SectionIds == {"s1", "s2"}

\* the values proposed to a setting
OptValues == {NoValue, VInteger(1), VString(Str_abc)}

\* the SectionManifestValues proposed for section "s1"
SectionValues == UNION {[ids -> OptValues] : ids \in SUBSET SettingIds}

\* the ManifestValues proposed: for "s1" alone, or for "s1" and "s2"
ManifestValues ==
    {[sid \in {"s1"} |-> m] : m \in SectionValues}
    \cup {[sid \in SectionIds |-> IF sid = "s1" THEN m ELSE [k \in {"k1"} |-> NoValue]] :
             m \in SectionValues}

\* a call on the manifest
ManifestCall(op, section_id, setting_id, s, value, flag, candidate, ret, validated, written, old) ==
    [op |-> op, section_id |-> section_id, setting_id |-> setting_id, setting |-> s,
     value |-> value, flag |-> flag, candidate |-> candidate, ret |-> ret,
     validated |-> validated, written |-> written, old |-> old]

ManifestInit ==
    /\ manifest \in {ConfigurableManifest(FALSE, FALSE, FALSE, FALSE,
                         [sid \in {"s1"} |-> SectionManifest("s1", "name", "description", m)]) :
                     m \in KeyedMaps}
    /\ manifest_call = ManifestCall("new", "", "", NoSetting, NoValue, FALSE, <<>>,
                                    Ok, NotCalled, 0, manifest)

ManifestIdle ==
    /\ manifest = ConfigurableManifest(FALSE, FALSE, FALSE, FALSE, <<>>)
    /\ manifest_call = ManifestCall("new", "", "", NoSetting, NoValue, FALSE, <<>>,
                                    Ok, NotCalled, 0, manifest)

\* the manifest after a SectionManifest operation on its section "s1"
InSection(r) == [manifest EXCEPT !.setting_sections["s1"] = r.self]

\* manifest.setting_sections["s1"].add_setting(s)
SectionAddSetting(s) ==
    /\ LET r == add_setting(manifest.setting_sections["s1"], s)
       IN /\ manifest' = InSection(r)
          /\ manifest_call' = ManifestCall("add_setting", "s1", s.setting_id, s, NoValue, FALSE,
                                           <<>>, r.ret, NotCalled, 0, manifest)
    /\ UNCHANGED <<backup_vars, tc_vars, setting_vars, section_vars, setup_vars, handler_vars, manager_vars, request_vars>>

\* manifest.setting_sections["s1"].set_setting(s)
SectionSetSetting(s) ==
    /\ LET r == set_setting(manifest.setting_sections["s1"], s)
       IN /\ manifest' = InSection(r)
          /\ manifest_call' = ManifestCall("section.set_setting", "s1", s.setting_id, s, NoValue,
                                           FALSE, <<>>, r.ret, NotCalled, 0, manifest)
    /\ UNCHANGED <<backup_vars, tc_vars, setting_vars, section_vars, setup_vars, handler_vars, manager_vars, request_vars>>

\* manifest.setting_sections["s1"].insert_setting(s)
SectionInsertSetting(s) ==
    /\ LET r == insert_setting(manifest.setting_sections["s1"], s)
       IN /\ manifest' = InSection(r)
          /\ manifest_call' = ManifestCall("insert_setting", "s1", s.setting_id, s, NoValue, FALSE,
                                           <<>>, r.ret, NotCalled, 0, manifest)
    /\ UNCHANGED <<backup_vars, tc_vars, setting_vars, section_vars, setup_vars, handler_vars, manager_vars, request_vars>>

\* manifest.setting_sections["s1"].update_setting(setting_id, value)
SectionUpdateSetting(setting_id, value) ==
    /\ LET r == update_setting(manifest.setting_sections["s1"], setting_id, value)
       IN /\ manifest' = InSection(r)
          /\ manifest_call' = ManifestCall("update_setting", "s1", setting_id, NoSetting, value,
                                           FALSE, <<>>, r.ret, NotCalled, 0, manifest)
    /\ UNCHANGED <<backup_vars, tc_vars, setting_vars, section_vars, setup_vars, handler_vars, manager_vars, request_vars>>

\* manifest.set_setting_value(section_id, setting_id, value)
SetSettingValue(section_id, setting_id, value) ==
    /\ LET r == set_setting_value(manifest, section_id, setting_id, value)
       IN /\ manifest' = r.self
          /\ manifest_call' = ManifestCall("set_setting_value", section_id, setting_id, NoSetting,
                                           value, FALSE, <<>>, r.ret, NotCalled, 0,
                                           manifest)
    /\ UNCHANGED <<backup_vars, tc_vars, setting_vars, section_vars, setup_vars, handler_vars, manager_vars, request_vars>>

\* manifest.update_setting_value(section_id, setting_id, value)
UpdateSettingValue(section_id, setting_id, value) ==
    /\ LET r == update_setting_value(manifest, section_id, setting_id, value)
       IN /\ manifest' = r.self
          /\ manifest_call' = ManifestCall("update_setting_value", section_id, setting_id,
                                           NoSetting, value, FALSE, <<>>, r.ret,
                                           NotCalled, 0, manifest)
    /\ UNCHANGED <<backup_vars, tc_vars, setting_vars, section_vars, setup_vars, handler_vars, manager_vars, request_vars>>

\* manifest.set_setting(section_id, setting_id, s)
ManifestSetSetting(section_id, setting_id, s) ==
    /\ LET r == manifest_set_setting(manifest, section_id, setting_id, s)
       IN /\ manifest' = r.self
          /\ manifest_call' = ManifestCall("set_setting", section_id, setting_id, s, NoValue,
                                           FALSE, <<>>, r.ret, NotCalled, 0, manifest)
    /\ UNCHANGED <<backup_vars, tc_vars, setting_vars, section_vars, setup_vars, handler_vars, manager_vars, request_vars>>

\* manifest.set_setting_mut(section_id, setting_id, is_mutable)
SetSettingMut(section_id, setting_id, is_mutable) ==
    /\ LET r == set_setting_mut(manifest, section_id, setting_id, is_mutable)
       IN /\ manifest' = r.self
          /\ manifest_call' = ManifestCall("set_setting_mut", section_id, setting_id, NoSetting,
                                           NoValue, is_mutable, <<>>, r.ret,
                                           NotCalled, 0, manifest)
    /\ UNCHANGED <<backup_vars, tc_vars, setting_vars, section_vars, setup_vars, handler_vars, manager_vars, request_vars>>

\* manifest.validate_manifest(candidate)
ValidateManifest(candidate) ==
    /\ manifest' = manifest
    /\ manifest_call' = ManifestCall("validate_manifest", "", "", NoSetting, NoValue, FALSE,
                                     candidate, validate_manifest(manifest, candidate),
                                     NotCalled, 0, manifest)
    /\ UNCHANGED <<backup_vars, tc_vars, setting_vars, section_vars, setup_vars, handler_vars, manager_vars, request_vars>>

\* validate_manifest(candidate), then set_setting_value for its values
UpdateManifest(candidate) ==
    /\ LET r == update_manifest(manifest, candidate)
       IN /\ manifest' = r.self
          /\ manifest_call' = ManifestCall("update_manifest", "", "", NoSetting, NoValue, FALSE,
                                           candidate, r.ret, r.validated, r.written, manifest)
    /\ UNCHANGED <<backup_vars, tc_vars, setting_vars, section_vars, setup_vars, handler_vars, manager_vars, request_vars>>

ManifestNext ==
    \/ \E id \in SettingIds : \E s \in SectionSettings(id) : SectionAddSetting(s)
    \/ \E id \in SettingIds : \E s \in SectionSettings(id) : SectionSetSetting(s)
    \/ \E id \in SettingIds : \E s \in SectionSettings(id) : SectionInsertSetting(s)
    \/ \E id \in SettingIds : \E v \in OptValues \ {NoValue} : SectionUpdateSetting(id, v)
    \/ \E sid \in SectionIds : \E id \in SettingIds : \E v \in OptValues :
           SetSettingValue(sid, id, v)
    \/ \E sid \in SectionIds : \E id \in SettingIds : \E v \in OptValues \ {NoValue} :
           UpdateSettingValue(sid, id, v)
    \/ \E sid \in SectionIds : \E id, arg \in SettingIds : \E s \in SectionSettings(id) :
           ManifestSetSetting(sid, arg, s)
    \/ \E sid \in SectionIds : \E id \in SettingIds : \E b \in BOOLEAN :
           SetSettingMut(sid, id, b)
    \/ \E candidate \in ManifestValues : ValidateManifest(candidate)
    \/ \E candidate \in ManifestValues : UpdateManifest(candidate)

TaskRecv == Recv \/ RecvClosed \/ PausedRecv \/ PausedRecvClosed

\* a step that records nothing
Unrecorded == UNCHANGED <<fifo, lifecycle>>

BackupNext ==
    \/ \E instr \in BackupInstruction : Send(instr) /\ Unrecorded
    \/ DropSenders /\ Unrecorded
    \/ Start /\ Unrecorded
    \/ Started /\ Unrecorded
    \/ Stop /\ Unrecorded
    \/ Stopped /\ Unrecorded
    \/ Crash /\ Unrecorded
    \/ Tick /\ Unrecorded
    \/ Recv /\ Unrecorded
    \/ RecvClosed /\ Unrecorded
    \/ PausedRecv /\ Unrecorded
    \/ PausedRecvClosed /\ Unrecorded

SchedulerNext ==
    \/ \E instr \in BackupInstruction : Send(instr) /\ Unrecorded
    \/ DropSenders /\ Unrecorded
    \/ Tick /\ Unrecorded
    \/ Recv /\ Unrecorded
    \/ RecvClosed /\ Unrecorded
    \/ PausedRecv /\ Unrecorded
    \/ PausedRecvClosed /\ Unrecorded

\* the lifecycle event a transition emits (a crash is the edge Running -> Stopped)
EventOfCrashAsStop(from, to) ==
    CASE to = "Starting" -> "InstanceStarting"
      [] to = "Running" -> "InstanceStarted"
      [] to = "Stopping" -> "InstanceStopping"
      [] to = "Stopped" -> "InstanceStopped"

EventOf(from, to) ==
    CASE to = "Starting" -> "InstanceStarting"
      [] to = "Running" -> "InstanceStarted"
      [] to = "Stopping" -> "InstanceStopping"
      [] to = "Stopped" -> IF from = "Running" THEN "InstanceError" ELSE "InstanceStopped"

\* the latest MaxEvents events
Latest(events) == IF Len(events) > MaxEvents THEN Tail(events) ELSE events

\* the transition just made is recorded with the event it emits
Emits(auto) ==
    /\ lifecycle' = [lifecycle EXCEPT
           !.crashed = (instance_state = "Running" /\ instance_state' = "Stopped"),
           !.auto = auto,
           !.events = Latest(Append(@, EventOf(instance_state, instance_state')))]
    /\ UNCHANGED fifo

\* the restart that follows a crash when restart_on_crash is set
RestartPending == lifecycle.crashed /\ lifecycle.restart_on_crash

\* the supervisor starts the instance again after a crash
AutoRestart == RestartPending /\ Start /\ Emits(TRUE)

LifecycleNext ==
    \/ ~RestartPending /\ Start /\ Emits(FALSE)
    \/ AutoRestart
    \/ Started /\ Emits(FALSE)
    \/ Stop /\ Emits(FALSE)
    \/ Stopped /\ Emits(FALSE)
    \/ Crash /\ Emits(FALSE)

\* the task and its senders, with every send and every recv() that gave an
\* instruction recorded
FifoNext ==
    \/ \E instr \in BackupInstruction :
           /\ Len(fifo.sent) < MaxSent
           /\ Send(instr)
           /\ fifo' = [fifo EXCEPT !.sent = Append(@, instr)]
           /\ UNCHANGED lifecycle
    \/ DropSenders /\ Unrecorded
    \/ Tick /\ Unrecorded
    \/ /\ Recv
       /\ fifo' = [fifo EXCEPT !.consumed = Append(@, last'.instr)]
       /\ UNCHANGED lifecycle
    \/ RecvClosed /\ Unrecorded
    \/ /\ PausedRecv
       /\ fifo' = [fifo EXCEPT !.consumed = Append(@, last'.instr)]
       /\ UNCHANGED lifecycle
    \/ PausedRecvClosed /\ Unrecorded

(***************************************************************************)
(* MinecraftBedrockInstance::new and MinecraftBedrockInstance::restore     *)
(***************************************************************************)

\* Option<bool>, and Option::unwrap_or / unwrap_or_default
BoolOptions == {[some |-> FALSE, v |-> FALSE]} \cup {[some |-> TRUE, v |-> b] : b \in BOOLEAN}
unwrap_or(o, default) == IF o.some THEN o.v ELSE default

\* a thread that panicked returns nothing
Panic(msg) == [kind |-> "panic", source |-> msg]

\* serde_json values
JString(s) == [t |-> "string", s |-> s, n |-> 0, b |-> FALSE]
JNumber(n) == [t |-> "number", s |-> "", n |-> n, b |-> FALSE]
JBool(b) == [t |-> "bool", s |-> "", n |-> 0, b |-> b]
JNull == [t |-> "null", s |-> "", n |-> 0, b |-> FALSE]

\* a file: absent, bytes that are not JSON, or a JSON object
NoFile == [kind |-> "missing", fields |-> [k \in {} |-> JNull]]
NotJson == [kind |-> "bytes", fields |-> [k \in {} |-> JNull]]
JObject(fields) == [kind |-> "object", fields |-> fields]

\* the fields of struct RestoreConfig; backup_period is the Option among them
RestoreKeys ==
    {"name", "version", "description", "port", "auto_start", "restart_on_crash",
     "backup_period", "has_started"}

\* derive(Serialize) of RestoreConfig through serde_json::to_string_pretty
to_string_pretty(c) ==
    JObject([k \in RestoreKeys |->
        CASE k = "name" -> JString(c.name)
          [] k = "version" -> JString(c.version)
          [] k = "description" -> JString(c.description)
          [] k = "port" -> JNumber(c.port)
          [] k = "auto_start" -> JBool(c.auto_start)
          [] k = "restart_on_crash" -> JBool(c.restart_on_crash)
          [] k = "backup_period" ->
                 IF c.backup_period.some THEN JNumber(c.backup_period.v) ELSE JNull
          [] k = "has_started" -> JBool(c.has_started)])

Has(file, k, t) == k \in DOMAIN file.fields /\ file.fields[k].t = t
HasU32(file, k) == Has(file, k, "number") /\ file.fields[k].n >= 0

\* the JSON value under key k when it has type t
JField(file, k, t, default) == IF Has(file, k, t) THEN file.fields[k] ELSE default

\* the RestoreConfig a JSON object deserializes to
Deserialized(file) ==
    [name |-> JField(file, "name", "string", JString("")).s,
     version |-> JField(file, "version", "string", JString("")).s,
     description |-> JField(file, "description", "string", JString("")).s,
     port |-> JField(file, "port", "number", JNumber(0)).n,
     auto_start |-> JField(file, "auto_start", "bool", JBool(FALSE)).b,
     restart_on_crash |-> JField(file, "restart_on_crash", "bool", JBool(FALSE)).b,
     backup_period |->
         IF HasU32(file, "backup_period")
         THEN SomeNum(file.fields["backup_period"].n)
         ELSE NoneNum,
     has_started |-> JField(file, "has_started", "bool", JBool(FALSE)).b]

\* a load that lets every field default when its key is absent or mistyped
from_reader_lenient(file) == [ret |-> Ok, value |-> <<Deserialized(file)>>]

\* File::open and derive(Deserialize) of RestoreConfig through
\* serde_json::from_reader: a key that is absent is an error but for the
\* Option, which is then None
from_reader(file) ==
    IF file.kind = "missing"
    THEN [ret |-> Err("Internal", "Failed to open config file"), value |-> <<>>]
    ELSE IF \/ file.kind # "object"
            \/ ~ Has(file, "name", "string")
            \/ ~ Has(file, "version", "string")
            \/ ~ Has(file, "description", "string")
            \/ ~ HasU32(file, "port")
            \/ ~ Has(file, "auto_start", "bool")
            \/ ~ Has(file, "restart_on_crash", "bool")
            \/ ~ Has(file, "has_started", "bool")
            \/ /\ "backup_period" \in DOMAIN file.fields
               /\ ~ Has(file, "backup_period", "null")
               /\ ~ HasU32(file, "backup_period")
    THEN [ret |-> Err("Internal", "Failed to deserialize config from string"), value |-> <<>>]
    ELSE [ret |-> Ok, value |-> <<Deserialized(file)>>]

\* a RestoreConfig that marks the instance as started before
RestoreConfigStarted(config) ==
    [name |-> config.name,
     version |-> config.version,
     description |-> unwrap_or(config.description, ""),
     port |-> config.port,
     auto_start |-> unwrap_or(config.auto_start, FALSE),
     restart_on_crash |-> unwrap_or(config.restart_on_crash, FALSE),
     backup_period |-> config.backup_period,
     has_started |-> TRUE]

\* the RestoreConfig new builds from its SetupConfig
RestoreConfig(config) ==
    [name |-> config.name,
     version |-> config.version,
     description |-> unwrap_or(config.description, ""),
     port |-> config.port,
     auto_start |-> unwrap_or(config.auto_start, FALSE),
     restart_on_crash |-> unwrap_or(config.restart_on_crash, FALSE),
     backup_period |-> config.backup_period,
     has_started |-> FALSE]

\* a backup task that starts with no period whatever was persisted
backup_task_unscheduled(restore_config) == [backup_period |-> NoneNum, counter |-> 0]

\* the locals of the task restore spawns
backup_task(restore_config) ==
    [backup_period |-> restore_config.backup_period, counter |-> 0]

\* the instance restore builds
MinecraftBedrockInstance(restore_config) ==
    [state |-> "Stopped",
     process |-> NoneStr,
     auto_start |-> restore_config.auto_start,
     restart_on_crash |-> restore_config.restart_on_crash,
     backup_period |-> restore_config.backup_period,
     config |-> restore_config]

\* restore on the directory d, where the operation named by fault fails
restore(d, fault) ==
    LET loaded == IF fault = "open"
                  THEN [ret |-> Err("Internal", "Failed to open config file"), value |-> <<>>]
                  ELSE from_reader(d.config)
    IN  IF IsErr(loaded.ret)
        THEN [ret |-> loaded.ret, instance |-> <<>>, tasks |-> <<>>, disk |-> d]
        ELSE IF ~ d.properties /\ fault = "write_properties"
        THEN [ret |-> Panic("failed to write to server.properties"),
              instance |-> <<>>, tasks |-> <<>>, disk |-> d]
        ELSE LET restore_config == loaded.value[1]
                 written == [d EXCEPT !.properties = TRUE]
                 tasks == <<backup_task(restore_config)>>
             IN  IF fault = "read_properties"
                 THEN [ret |-> Err("Internal", "Failed to read properties"),
                       instance |-> <<>>, tasks |-> tasks, disk |-> written]
                 ELSE [ret |-> Ok,
                       instance |-> <<MinecraftBedrockInstance(restore_config)>>,
                       tasks |-> tasks, disk |-> written]

\* the steps of new, in the order new takes them
SetupSteps == <<"download", "unzip", "remove_zip", "create", "persist", "restore">>

\* new on the directory d, where the operation named by fault fails
new(config, d, fault) ==
    LET Aborted(ret, n, on) ==
            [ret |-> ret, instance |-> <<>>, tasks |-> <<>>, disk |-> on,
             steps |-> SubSeq(SetupSteps, 1, n)]
        downloaded == [d EXCEPT !.zip = TRUE]
        unzipped == [downloaded EXCEPT !.server = @ \/ fault # "unzip"]
        removed == [unzipped EXCEPT !.zip = FALSE]
        created == [removed EXCEPT !.properties = TRUE]
        persisted == [created EXCEPT !.config = to_string_pretty(RestoreConfig(config))]
        restored == restore(persisted, fault)
    IN  IF config.version # "latest" /\ ~ config.version_url.some
        THEN Aborted(Panic("called Option::unwrap() on a None value"), 1, d)
        ELSE IF fault = "download"
        THEN Aborted(Err("Internal", "download failed"), 1, d)
        ELSE IF fault = "remove_zip"
        THEN Aborted(Err("Internal", "Could not remove zip"), 3, unzipped)
        ELSE IF fault = "create"
        THEN Aborted(Err("Internal", "Could not create some files or directories for instance"), 4, removed)
        ELSE IF fault = "persist"
        THEN Aborted(Err("Internal", "Failed to write config file"), 5, created)
        ELSE [ret |-> restored.ret, instance |-> restored.instance,
              tasks |-> restored.tasks, disk |-> restored.disk, steps |-> SetupSteps]

\* the SetupConfig values new is called with
SetupConfigs ==
    [name : {"bedrock", "creative world"},
     version : {"latest", "1.19.51"},
     version_url : {NoneStr, SomeStr("https://minecraft.azureedge.net/bedrock-server.zip")},
     port : {19132},
     description : {NoneStr, SomeStr("survival")},
     auto_start : BoolOptions,
     restart_on_crash : {[some |-> FALSE, v |-> FALSE], [some |-> TRUE, v |-> TRUE]},
     backup_period : NumOptions({60})]

\* the operations of restore and of new that can fail
RestoreFaults == {"none", "open", "write_properties", "read_properties"}
SetupFaults == RestoreFaults \cup {"download", "unzip", "remove_zip", "create", "persist"}

\* a config file after it was modified by hand
Modified(file) ==
    {NoFile, NotJson, JObject([file.fields EXCEPT !["port"] = JNumber(0 - 1)])}
        \cup {JObject([k \in DOMAIN file.fields \ {gone} |-> file.fields[k]]) :
                  gone \in DOMAIN file.fields}
        \cup {JObject([file.fields EXCEPT ![k] = JNull]) : k \in DOMAIN file.fields}

\* a directory nothing was set up in
EmptyDirectory == [config |-> NoFile, properties |-> FALSE, server |-> FALSE, zip |-> FALSE]

\* no call made on the directory d since the backend started
NoSetupCall(d) ==
    [op |-> "none", config |-> <<>>, fault |-> "none", before |-> d,
     ret |-> Ok, instance |-> <<>>, tasks |-> <<>>, steps |-> <<>>]

SetupIdle ==
    /\ disk = EmptyDirectory
    /\ setup_call = NoSetupCall(EmptyDirectory)

\* first-time setup, in the directory just made for the new instance
SetupNew ==
    /\ disk = EmptyDirectory
    /\ \E config \in SetupConfigs, fault \in SetupFaults :
           LET r == new(config, disk, fault)
           IN  /\ disk' = r.disk
               /\ setup_call' = [op |-> "new", config |-> <<config>>, fault |-> fault,
                                  before |-> disk, ret |-> r.ret, instance |-> r.instance,
                                  tasks |-> r.tasks, steps |-> r.steps]
    /\ UNCHANGED <<backup_vars, tc_vars, setting_vars, section_vars, manifest_vars, handler_vars, manager_vars, request_vars>>

SetupRestore ==
    /\ \E fault \in RestoreFaults :
           LET r == restore(disk, fault)
           IN  /\ disk' = r.disk
               /\ setup_call' = [op |-> "restore", config |-> <<>>, fault |-> fault,
                                  before |-> disk, ret |-> r.ret, instance |-> r.instance,
                                  tasks |-> r.tasks, steps |-> <<"restore">>]
    /\ UNCHANGED <<backup_vars, tc_vars, setting_vars, section_vars, manifest_vars, handler_vars, manager_vars, request_vars>>

\* while the backend is down, the config file is modified or the properties
\* file removed by hand
ModifyConfig ==
    /\ IsOk(from_reader(disk.config).ret)
    /\ \E file \in Modified(disk.config) : disk' = [disk EXCEPT !.config = file]
    /\ setup_call' = NoSetupCall(disk')
    /\ UNCHANGED <<backup_vars, tc_vars, setting_vars, section_vars, manifest_vars, handler_vars, manager_vars, request_vars>>

RemoveProperties ==
    /\ disk.properties
    /\ disk' = [disk EXCEPT !.properties = FALSE]
    /\ setup_call' = NoSetupCall(disk')
    /\ UNCHANGED <<backup_vars, tc_vars, setting_vars, section_vars, manifest_vars, handler_vars, manager_vars, request_vars>>

SetupNext ==
    \/ SetupNew
    \/ SetupRestore
    \/ ModifyConfig
    \/ RemoveProperties

(***************************************************************************)
(* The request handlers and the locks of AppState                          *)
(***************************************************************************)

\* the handler tasks that run at once
Tasks == {1, 2, 3}

\* the instances in AppState.instances, and the uuids requests name
Uuids == {"a", "b"}
RequestedUuids == Uuids \cup {"unknown"}

\* state.users, state.instances, and the Mutex around each instance
Locks == {"users", "instances"} \cup Uuids


\* handlers/instance_config.rs keeps the instance locked until it returns
\* (get_game_setting and set_game_setting lock as the two named here),
\* handlers/instance_fs.rs drops it once it has the path, and
\* handlers/global_fs.rs takes no instance
ConfigHandlers == {"get_instance_setting", "set_instance_setting"}
Handlers == ConfigHandlers \cup {"list_instance_files", "list_files"}

NoRequest == [pc |-> "idle", kind |-> "none", uuid |-> "none"]

HandlerIdle ==
    /\ handler = [t \in Tasks |-> NoRequest]
    /\ guards = [t \in Tasks |-> {}]

Free(lock) == \A t \in Tasks : lock \notin guards[t]

At(t, pc_) == handler[t].pc = pc_
Goto(t, pc_) == handler' = [handler EXCEPT ![t].pc = pc_]
Return(t) == handler' = [handler EXCEPT ![t] = NoRequest] /\ guards' = [guards EXCEPT ![t] = {}]

\* a request arrives: the handler starts at state.users.lock().await
Request(t) ==
    /\ At(t, "idle")
    /\ \E kind \in Handlers, uuid \in RequestedUuids :
           handler' = [handler EXCEPT ![t] = [pc |-> "lock_users", kind |-> kind, uuid |-> uuid]]
    /\ UNCHANGED guards
    /\ UNCHANGED <<backup_vars, tc_vars, setting_vars, section_vars, manifest_vars, setup_vars, manager_vars, request_vars>>

LockUsers(t) ==
    /\ At(t, "lock_users")
    /\ Free("users")
    /\ guards' = [guards EXCEPT ![t] = @ \cup {"users"}]
    /\ Goto(t, "auth")
    /\ UNCHANGED <<backup_vars, tc_vars, setting_vars, section_vars, manifest_vars, setup_vars, manager_vars, request_vars>>

\* try_auth or can_perform_action refuses: the handler returns the Err
Unauthorized(t) ==
    /\ At(t, "auth")
    /\ Return(t)
    /\ UNCHANGED <<backup_vars, tc_vars, setting_vars, section_vars, manifest_vars, setup_vars, manager_vars, request_vars>>

\* a handler that goes on to the instances with users still locked
KeepUsers(t) ==
    /\ At(t, "auth")
    /\ Goto(t, IF handler[t].kind = "list_files" THEN "fs_work" ELSE "lock_instances")
    /\ UNCHANGED guards
    /\ UNCHANGED <<backup_vars, tc_vars, setting_vars, section_vars, manifest_vars, setup_vars, manager_vars, request_vars>>

\* drop(users), then state.instances.lock().await or the work on the files
DropUsers(t) ==
    /\ At(t, "auth")
    /\ guards' = [guards EXCEPT ![t] = @ \ {"users"}]
    /\ Goto(t, IF handler[t].kind = "list_files" THEN "fs_work" ELSE "lock_instances")
    /\ UNCHANGED <<backup_vars, tc_vars, setting_vars, section_vars, manifest_vars, setup_vars, manager_vars, request_vars>>

LockInstances(t) ==
    /\ At(t, "lock_instances")
    /\ Free("instances")
    /\ guards' = [guards EXCEPT ![t] = @ \cup {"instances"}]
    /\ Goto(t, "get")
    /\ UNCHANGED <<backup_vars, tc_vars, setting_vars, section_vars, manifest_vars, setup_vars, manager_vars, request_vars>>

\* instances.get(&uuid) finds nothing: the handler returns InstanceNotFound
InstanceNotFound(t) ==
    /\ At(t, "get")
    /\ handler[t].uuid \notin Uuids
    /\ Return(t)
    /\ UNCHANGED <<backup_vars, tc_vars, setting_vars, section_vars, manifest_vars, setup_vars, manager_vars, request_vars>>

\* instances.get(&uuid) gives the instance: the handler is at .lock().await
GetInstance(t) ==
    /\ At(t, "get")
    /\ handler[t].uuid \in Uuids
    /\ Goto(t, "lock_instance")
    /\ UNCHANGED guards
    /\ UNCHANGED <<backup_vars, tc_vars, setting_vars, section_vars, manifest_vars, setup_vars, manager_vars, request_vars>>

LockInstance(t) ==
    /\ At(t, "lock_instance")
    /\ Free(handler[t].uuid)
    /\ guards' = [guards EXCEPT ![t] = @ \cup {handler[t].uuid}]
    /\ Goto(t, "operate")
    /\ UNCHANGED <<backup_vars, tc_vars, setting_vars, section_vars, manifest_vars, setup_vars, manager_vars, request_vars>>

\* the getter or setter is awaited and the handler returns, which drops
\* the instance guard and the instances guard
ReturnSetting(t) ==
    /\ At(t, "operate")
    /\ handler[t].kind \in ConfigHandlers
    /\ Return(t)
    /\ UNCHANGED <<backup_vars, tc_vars, setting_vars, section_vars, manifest_vars, setup_vars, manager_vars, request_vars>>

\* instance.path().await; drop(instance); drop(instances)
DropInstance(t) ==
    /\ At(t, "operate")
    /\ handler[t].kind = "list_instance_files"
    /\ guards' = [guards EXCEPT ![t] = @ \ {handler[t].uuid, "instances"}]
    /\ Goto(t, "fs_work")
    /\ UNCHANGED <<backup_vars, tc_vars, setting_vars, section_vars, manifest_vars, setup_vars, manager_vars, request_vars>>

\* the work on the files is done and the handler returns
ReturnFiles(t) ==
    /\ At(t, "fs_work")
    /\ Return(t)
    /\ UNCHANGED <<backup_vars, tc_vars, setting_vars, section_vars, manifest_vars, setup_vars, manager_vars, request_vars>>

HandlerNext ==
    \E t \in Tasks :
        \/ Request(t)
        \/ LockUsers(t)
        \/ Unauthorized(t)
        \/ DropUsers(t)
        \/ LockInstances(t)
        \/ InstanceNotFound(t)
        \/ GetInstance(t)
        \/ LockInstance(t)
        \/ ReturnSetting(t)
        \/ DropInstance(t)
        \/ ReturnFiles(t)

(***************************************************************************)
(* InstanceManager: create_instance and delete_instance                    *)
(***************************************************************************)

\* the ports create_instance tries: for port in 25565..26000
FirstPort == 25565
PortLimit == 26000

\* sanitize_filename::sanitize drops the characters no file name may hold
sanitize(name) == SelectSeq(name, LAMBDA ch : ch \notin {"/", ":", "*"})

\* a check that finds no name in the collection
check_if_name_exists_never(self, name) == FALSE

check_if_name_exists(self, name) ==
    \E uuid \in DOMAIN self.instance_collection : self.instance_collection[uuid].name = name

\* the lowest port of the range that taken_ports does not contain, if any
FreePorts(self) == {port \in FirstPort..(PortLimit - 1) : port \notin self.taken_ports}
FirstFreePort(self) == CHOOSE port \in FreePorts(self) : \A other \in FreePorts(self) : port <= other

\* create_instance for a fresh uuid, where the operation named by fault fails
create_instance(self, config, uuid, fault) ==
    LET name == sanitize(config.name)
        inserted == [self EXCEPT !.instance_collection =
                        insert(@, uuid, [name |-> name, port |-> config.port])]
    IN  IF check_if_name_exists(self, name)
        THEN [ret |-> Err("String", "already exists as an instance"), self |-> self]
        ELSE IF fault = "create_dir"
        THEN [ret |-> Err("String", "create_dir"), self |-> self]
        ELSE IF ~ config.has_url
        THEN [ret |-> Panic("called Option::unwrap() on a None value"), self |-> self]
        ELSE IF fault = "download"
        THEN [ret |-> Err("String", "download_file"), self |-> self]
        ELSE IF fault = "eula"
        THEN [ret |-> Err("String", "failed to create eula.txt"), self |-> self]
        ELSE IF fault = "copy"
        THEN [ret |-> Panic("fs::copy"), self |-> inserted]
        ELSE IF config.port.some \/ FreePorts(self) = {}
        THEN [ret |-> Ok, self |-> inserted]
        ELSE [ret |-> Ok,
              self |-> [instance_collection |->
                            insert(self.instance_collection, uuid,
                                   [name |-> name, port |-> SomeNum(FirstFreePort(self))]),
                        taken_ports |-> self.taken_ports \cup {FirstFreePort(self)}]]

\* delete_instance, where the operation named by fault fails
delete_instance(self, uuid, fault) ==
    IF uuid \notin DOMAIN self.instance_collection
    THEN [ret |-> Err("String", "instance not found"), self |-> self]
    ELSE LET removed == [self EXCEPT !.instance_collection =
                            [u \in DOMAIN @ \ {uuid} |-> @[u]]]
         IN  IF fault = "remove_dir"
             THEN [ret |-> Err("String", "remove_dir_all"), self |-> removed]
             ELSE [ret |-> Ok, self |-> removed]

\* the names and ports create_instance is called with
InstanceNames == {<<"a">>, <<"a", "/">>, <<"b">>}
InstanceConfigs ==
    [name : InstanceNames, port : NumOptions({FirstPort, FirstPort + 1}), has_url : BOOLEAN]

\* InstanceManager::new: the instances found in the database, and no taken port
InstanceManager(instance_collection) ==
    [instance_collection |-> instance_collection, taken_ports |-> {}]

ManagerInit ==
    /\ manager \in {InstanceManager([u \in {} |-> 0]),
                    InstanceManager([u \in {0} |-> [name |-> <<"b">>, port |-> SomeNum(FirstPort)]])}
    /\ manager_call = [op |-> "new", config |-> <<>>, uuid |-> 0, fault |-> "none",
                       ret |-> Ok, old |-> manager, created |-> 0]

ManagerIdle ==
    /\ manager = InstanceManager([u \in {} |-> 0])
    /\ manager_call = [op |-> "new", config |-> <<>>, uuid |-> 0, fault |-> "none",
                       ret |-> Ok, old |-> manager, created |-> 0]

\* create_instance; Uuid::new_v4 gives a uuid never given before
CreateInstance ==
    /\ manager_call.created < MaxCreated
    /\ \E config \in InstanceConfigs, fault \in {"none", "create_dir", "download", "eula", "copy"} :
           LET uuid == manager_call.created + 1
               r == create_instance(manager, config, uuid, fault)
           IN  /\ manager' = r.self
               /\ manager_call' = [op |-> "create_instance", config |-> <<config>>, uuid |-> uuid,
                                   fault |-> fault, ret |-> r.ret, old |-> manager,
                                   created |-> uuid]
    /\ UNCHANGED <<backup_vars, tc_vars, setting_vars, section_vars, manifest_vars, setup_vars, handler_vars, request_vars>>

DeleteInstance ==
    /\ \E uuid \in 0..MaxCreated, fault \in {"none", "remove_dir"} :
           LET r == delete_instance(manager, uuid, fault)
           IN  /\ manager' = r.self
               /\ manager_call' = [op |-> "delete_instance", config |-> <<>>, uuid |-> uuid,
                                   fault |-> fault, ret |-> r.ret, old |-> manager,
                                   created |-> manager_call.created]
    /\ UNCHANGED <<backup_vars, tc_vars, setting_vars, section_vars, manifest_vars, setup_vars, handler_vars, request_vars>>

ManagerNext ==
    \/ CreateInstance
    \/ DeleteInstance

(***************************************************************************)
(* set_instance_setting: the dispatch on the shape of the JSON value        *)
(***************************************************************************)
\* enum InstanceSetting
InstanceSetting == {"Uuid", "Name", "Flavour", "GameType", "CmdArgs", "Description",
                    "Port", "MinRam", "MaxRam", "CreationTime", "Path", "AutoStart",
                    "RestartOnCrash", "BackupPeriod"}

\* serde_json::Value.  A Number is a PosInt (u64), a NegInt or a Float; the
\* u64 of a PosInt is hi * 2^32 + lo with lo < 2^32.  An Array holds for each
\* element whether it is a string, and the string.
ValueNull == [t |-> "Null", num |-> [n |-> "PosInt", hi |-> 0, lo |-> 0], b |-> FALSE, s |-> "", a |-> <<>>]
ValueNumber(n, hi, lo) == [ValueNull EXCEPT !.t = "Number", !.num = [n |-> n, hi |-> hi, lo |-> lo]]
ValueBool(b) == [ValueNull EXCEPT !.t = "Bool", !.b = b]
ValueString(s) == [ValueNull EXCEPT !.t = "String", !.s = s]
ValueArray(a) == [ValueNull EXCEPT !.t = "Array", !.a = a]
ValueObject == [ValueNull EXCEPT !.t = "Object"]

\* Number::as_u64: Some for a PosInt only
as_u64(num) == IF num.n = "PosInt" THEN [some |-> TRUE, hi |-> num.hi, lo |-> num.lo]
                                   ELSE [some |-> FALSE, hi |-> 0, lo |-> 0]

\* u64 as u32: the cast keeps the low 32 bits
as_u32(u) == u.lo

MalformedRequest == Err("MalformedRequest", "")
UnsupportedOperation == Err("UnsupportedOperation", "")

\* a setter of the instance: the implementation does not support the setting
\* (None), refuses the value (Some(Err)), or stores it (Some(Ok))
Setter(self, field, v, outcome) ==
    IF outcome = "unsupported" THEN [ret |-> UnsupportedOperation, self |-> self]
    ELSE IF outcome = "err" THEN [ret |-> Err("Internal", field), self |-> self]
    ELSE [ret |-> Ok, self |-> [self EXCEPT ![field] = v]]

\* set_name and set_description return a Result, never None
NamedSetter(self, field, v, outcome) ==
    Setter(self, field, v, IF outcome = "unsupported" THEN "ok" ELSE outcome)

Malformed(self) == [ret |-> MalformedRequest, self |-> self]

\* the match on value of set_instance_setting, once the instance is locked
set_instance_setting(self, key, value, outcome) ==
    IF value.t = "Null"
    THEN IF key = "BackupPeriod" THEN Setter(self, "backup_period", NoneNum, outcome)
         ELSE Malformed(self)
    ELSE IF value.t = "Number"
    THEN IF ~ as_u64(value.num).some THEN Malformed(self)
         ELSE LET number == as_u32(as_u64(value.num))
              IN  IF key = "BackupPeriod" THEN Setter(self, "backup_period", SomeNum(number), outcome)
                  ELSE IF key = "MaxRam" THEN Setter(self, "max_ram", number, outcome)
                  ELSE IF key = "MinRam" THEN Setter(self, "min_ram", number, outcome)
                  ELSE IF key = "Port" THEN Setter(self, "port", number, outcome)
                  ELSE Malformed(self)
    ELSE IF value.t = "Bool"
    THEN IF key = "AutoStart" THEN Setter(self, "auto_start", value.b, outcome)
         ELSE IF key = "RestartOnCrash" THEN Setter(self, "restart_on_crash", value.b, outcome)
         ELSE Malformed(self)
    ELSE IF value.t = "String"
    THEN IF key = "Name" THEN NamedSetter(self, "name", value.s, outcome)
         ELSE IF key = "Description" THEN NamedSetter(self, "description", value.s, outcome)
         ELSE Malformed(self)
    ELSE IF value.t = "Array"
    THEN IF key = "CmdArgs"
         THEN IF \E i \in DOMAIN value.a : ~ value.a[i].is_str THEN Malformed(self)
              ELSE Setter(self, "cmd_args", [i \in DOMAIN value.a |-> value.a[i].s], outcome)
         ELSE Malformed(self)
    ELSE Malformed(self)

RequestNumbers ==
    {ValueNumber("PosInt", hi, lo) : hi \in {0, 1}, lo \in {0, 1}} \cup {ValueNumber("NegInt", 0, 1), ValueNumber("Float", 0, 1)}

RequestValues ==
    {ValueNull, ValueBool(TRUE), ValueBool(FALSE), ValueString("n"), ValueObject,
     ValueArray(<<[is_str |-> TRUE, s |-> "a"]>>),
     ValueArray(<<[is_str |-> TRUE, s |-> "a"], [is_str |-> FALSE, s |-> ""]>>)} \cup RequestNumbers

SetterOutcomes == {"ok", "err", "unsupported"}

NoSettingRequest == [key |-> "none", value |-> ValueNull, outcome |-> "ok", ret |-> Ok]

RequestIdle ==
    /\ locked_instance = [backup_period |-> NoneNum, max_ram |-> 0, min_ram |-> 0, port |-> 0,
                          auto_start |-> FALSE, restart_on_crash |-> FALSE,
                          name |-> "", description |-> "", cmd_args |-> <<>>]
    /\ setting_request = NoSettingRequest

\* a request passes the authorisation, locks the instance and is dispatched
SetInstanceSetting ==
    /\ setting_request = NoSettingRequest
    /\ \E key \in InstanceSetting, value \in RequestValues, outcome \in SetterOutcomes :
           LET r == set_instance_setting(locked_instance, key, value, outcome)
           IN  /\ locked_instance' = r.self
               /\ setting_request' = [key |-> key, value |-> value, outcome |-> outcome, ret |-> r.ret]
    /\ UNCHANGED <<backup_vars, tc_vars, setting_vars, section_vars, manifest_vars, setup_vars, handler_vars, manager_vars>>

\* the handler returns Ok(Json("ok")) or the Err, which drops the guards
ReturnResponse ==
    /\ setting_request # NoSettingRequest
    /\ setting_request' = NoSettingRequest
    /\ UNCHANGED locked_instance
    /\ UNCHANGED <<backup_vars, tc_vars, setting_vars, section_vars, manifest_vars, setup_vars, handler_vars, manager_vars>>

RequestNext ==
    \/ SetInstanceSetting
    \/ ReturnResponse

BackupSpecInit == BackupInit /\ TypeCheckIdle /\ SettingIdle /\ SectionIdle /\ ManifestIdle /\ SetupIdle /\ HandlerIdle /\ ManagerIdle /\ RequestIdle
BackupSpec == BackupSpecInit /\ [][BackupNext]_vars

\* the task is scheduled again and again, and a recv() that is ready completes
FairBackupSpec == BackupSpec /\ WF_vars(TaskRecv /\ Unrecorded)

SchedulerSpecInit == SchedulerInit /\ TypeCheckIdle /\ SettingIdle /\ SectionIdle /\ ManifestIdle /\ SetupIdle /\ HandlerIdle /\ ManagerIdle /\ RequestIdle
SchedulerSpec == SchedulerSpecInit /\ [][SchedulerNext]_vars

FifoSpec == BackupSpecInit /\ [][FifoNext]_vars

LifecycleSpec == BackupSpecInit /\ [][LifecycleNext]_vars

\* a pending restart is carried out
FairLifecycleSpec == LifecycleSpec /\ WF_vars(AutoRestart)

TypeCheckSpecInit == TypeCheckInit /\ BackupIdle /\ SettingIdle /\ SectionIdle /\ ManifestIdle /\ SetupIdle /\ HandlerIdle /\ ManagerIdle /\ RequestIdle
TypeCheckSpec == TypeCheckSpecInit /\ [][TypeCheckNext]_vars

SettingSpecInit == SettingInit /\ BackupIdle /\ TypeCheckIdle /\ SectionIdle /\ ManifestIdle /\ SetupIdle /\ HandlerIdle /\ ManagerIdle /\ RequestIdle
SettingSpec == SettingSpecInit /\ [][SettingNext]_vars

SectionSpecInit == SectionInit /\ BackupIdle /\ TypeCheckIdle /\ SettingIdle /\ ManifestIdle /\ SetupIdle /\ HandlerIdle /\ ManagerIdle /\ RequestIdle
SectionSpec == SectionSpecInit /\ [][SectionNext]_vars

InferSpecInit == InferInit /\ BackupIdle /\ SettingIdle /\ SectionIdle /\ ManifestIdle /\ SetupIdle /\ HandlerIdle /\ ManagerIdle /\ RequestIdle
InferSpec == InferSpecInit /\ [][InferNext]_vars

ManifestSpecInit == ManifestInit /\ BackupIdle /\ TypeCheckIdle /\ SettingIdle /\ SectionIdle /\ SetupIdle /\ HandlerIdle /\ ManagerIdle /\ RequestIdle
ManifestSpec == ManifestSpecInit /\ [][ManifestNext]_vars

SetupSpecInit == SetupIdle /\ BackupIdle /\ TypeCheckIdle /\ SettingIdle /\ SectionIdle /\ ManifestIdle /\ HandlerIdle /\ ManagerIdle /\ RequestIdle
SetupSpec == SetupSpecInit /\ [][SetupNext]_vars

HandlerSpecInit == HandlerIdle /\ BackupIdle /\ TypeCheckIdle /\ SettingIdle /\ SectionIdle /\ ManifestIdle /\ SetupIdle /\ ManagerIdle /\ RequestIdle
HandlerSpec == HandlerSpecInit /\ [][HandlerNext]_vars

ManagerSpecInit == ManagerInit /\ BackupIdle /\ TypeCheckIdle /\ SettingIdle /\ SectionIdle /\ ManifestIdle /\ SetupIdle /\ HandlerIdle /\ RequestIdle
ManagerSpec == ManagerSpecInit /\ [][ManagerNext]_vars

RequestSpecInit == RequestIdle /\ BackupIdle /\ TypeCheckIdle /\ SettingIdle /\ SectionIdle /\ ManifestIdle /\ SetupIdle /\ HandlerIdle /\ ManagerIdle
RequestSpec == RequestSpecInit /\ [][RequestNext]_vars


(***************************************************************************)
(* Claims about the BackupScheduler                                        *)
(***************************************************************************)

\* C1: when Pause, SetPeriod(5), BackupNow, Resume are consumed in that order,
\* the two instructions consumed while paused are discarded: neither makes a
\* backup, and up to and including the step that consumes Resume the active
\* period is the one that was active when Pause was consumed.
C1_PausedInstructionsDiscarded ==
    /\ (seen \in {2, 3} /\ last.ev = "drop") =>
           (pc = "paused" /\ last.backup = "none" /\ backup_period = paused_period)
    /\ (seen = 4 /\ last.ev = "resume") =>
           (pc = "select" /\ last.backup = "none" /\ backup_period = paused_period)

\* the four instructions were consumed and the period before Pause was not 5
C1_Witness ==
    /\ seen = 4
    /\ last.ev = "resume"
    /\ pc = "select"
    /\ backup_period # SomeNum(MaxPeriod)

\* C2: from counter 0 with period Some(p), after p consecutive ticks with the
\* instance Running and no instruction received, exactly one backup was made,
\* by the p-th tick, and the counter is 0.
C2_OneBackupAfterPeriodTicks ==
    (backup_period.some /\ streak = backup_period.v /\ last.ev = "tick") =>
        (streak_backups = 1 /\ last.backup = "periodic" /\ counter = 0)

\* C3: once every sender is dropped the task eventually exits, whatever mode
\* it is in.
C3_ExitsOnceChannelClosed == (~tx_open) ~> (pc = "exited")

(***************************************************************************)
(* Claims about type_check                                                 *)
(***************************************************************************)

\* C4: whenever the variant tags of the type and the value differ, type_check
\* returns an error, and it is the type-mismatch error (not a bound, regex or
\* enum-membership error).
C4_TagMismatchIsTypeMismatch ==
    (tc_ret # NotCalled /\ tc_type.tag # tc_value.tag) =>
        /\ IsErr(tc_ret)
        /\ tc_ret.source = "Type mismatch"
        /\ tc_ret.source \notin {"Value is too small", "Value is too large",
                                 "Value does not match regex", "Invalid regex",
                                 "Value is not in enum"}

\* a bounded Integer type was checked against an UnsignedInteger inside the bounds
C4_Witness ==
    /\ tc_ret # NotCalled
    /\ tc_type = TInteger(SomeNum(0), SomeNum(1))
    /\ tc_value = VUnsignedInteger(1)
    /\ IsErr(tc_ret)

\* C5: for an Integer or UnsignedInteger type and a value of the same variant,
\* type_check succeeds iff (min is absent or min <= v) and (max is absent or
\* v <= max), both bounds inclusive.
C5_IntegerBoundsInclusive ==
    (/\ tc_ret # NotCalled
     /\ tc_type.tag \in {"Integer", "UnsignedInteger"}
     /\ tc_value.tag = tc_type.tag) =>
        (IsOk(tc_ret) <=>
            /\ (~tc_type.min.some \/ tc_type.min.v <= tc_value.num)
            /\ (~tc_type.max.some \/ tc_value.num <= tc_type.max.v))

\* a value equal to the lower bound of Integer{min: Some(a), max: Some(b)}, a < b, was accepted
C5_Witness ==
    /\ tc_type.tag = "Integer"
    /\ tc_type.min.some
    /\ tc_type.max.some
    /\ tc_type.min.v < tc_type.max.v
    /\ tc_value = VInteger(tc_type.min.v)
    /\ IsOk(tc_ret)

(***************************************************************************)
(* Claims about SettingManifest                                            *)
(***************************************************************************)

\* C6: on a setting with is_mutable = false, set_value and set_optional_value
\* return an error for every argument and leave the value and every other
\* field unchanged.
C6_ImmutableSettingRejectsSets ==
    (/\ setting_call.op \in {"set_value", "set_optional_value"}
     /\ ~setting_call.old.is_mutable) =>
        (IsErr(setting_call.ret) /\ setting = setting_call.old)

\* set_value was refused on an immutable setting for a value its type accepts
C6_Witness ==
    /\ setting_call.op = "set_value"
    /\ ~setting_call.old.is_mutable
    /\ IsOk(type_check(setting_call.old.value_type, setting_call.arg))
    /\ setting_call.arg # setting_call.old.value
    /\ IsErr(setting_call.ret)

\* C7: on a setting with is_required = true, set_optional_value(None) returns
\* an error and leaves the value unchanged, whether or not the setting is
\* mutable.
C7_RequiredSettingRejectsNone ==
    (/\ setting_call.op = "set_optional_value"
     /\ setting_call.arg = NoValue
     /\ setting_call.old.is_required) =>
        (IsErr(setting_call.ret) /\ setting = setting_call.old)

\* None was refused on a required setting that is mutable
C7_Witness ==
    /\ setting_call.op = "set_optional_value"
    /\ setting_call.arg = NoValue
    /\ setting_call.old.is_required
    /\ setting_call.old.is_mutable
    /\ setting_call.ret = Err("BadRequest", "Setting is required")

\* C9: set_optional_value(Some(v)) on a mutable setting commits v only after v
\* passes type_check against the setting's value_type; when v does not
\* type-check the call returns an error and the stored value is unchanged.
C9_OptionalValueIsTypeChecked ==
    (/\ setting_call.op = "set_optional_value"
     /\ IsSome(setting_call.arg)
     /\ setting_call.old.is_mutable
     /\ IsErr(type_check(setting_call.old.value_type, setting_call.arg))) =>
        (IsErr(setting_call.ret) /\ setting.value = setting_call.old.value)

\* C10: set_value(v) on a mutable setting stores Some(v) iff
\* type_check(value_type, v) succeeds; when the type check fails it returns a
\* BadRequest error carrying the underlying reason and the setting is unchanged.
C10_SetValueCommitsIffTypeChecks ==
    (setting_call.op = "set_value" /\ setting_call.old.is_mutable) =>
        LET e == type_check(setting_call.old.value_type, setting_call.arg)
        IN IF IsOk(e)
           THEN /\ IsOk(setting_call.ret)
                /\ setting = [setting_call.old EXCEPT !.value = setting_call.arg]
           ELSE /\ setting_call.ret.kind = "BadRequest"
                /\ setting_call.ret.source = e.source
                /\ setting = setting_call.old

\* a String that does not match the regex was refused on a mutable setting
C10_Witness ==
    /\ setting_call.op = "set_value"
    /\ setting_call.old.is_mutable
    /\ setting_call.arg = VString(Str_ABC)
    /\ setting_call.ret = Err("BadRequest", "Value does not match regex")
    /\ setting.value # setting_call.arg

(***************************************************************************)
(* C19: on a tick where no period is configured or the observed state is   *)
(* not Running, no backup is made and the counter is unchanged; a periodic *)
(* backup is made only on a tick with period Some(p) and state Running at  *)
(* which the incremented counter reaches p, and the counter is then 0.     *)
(***************************************************************************)
TickRule ==
    last'.ev = "tick" =>
        /\ (~backup_period.some \/ ObservedState(task_state, instance_state) # "Running") =>
               (last'.backup = "none" /\ counter' = counter)
        /\ last'.backup # "none" =>
               /\ last'.backup = "periodic"
               /\ backup_period.some
               /\ ObservedState(task_state, instance_state) = "Running"
               /\ counter + 1 >= backup_period.v
               /\ counter' = 0

C19_TickRule == [][TickRule]_vars

\* with period Some(3) and state Running, a tick made the periodic backup
C19_Witness ==
    /\ last.ev = "tick"
    /\ last.backup = "periodic"
    /\ backup_period = SomeNum(3)
    /\ ObservedState(task_state, instance_state) = "Running"
    /\ counter = 0

(***************************************************************************)
(* C20: SetPeriod(p) received while not paused replaces the active period  *)
(* with p, leaves the counter unchanged and makes no backup in that step.  *)
(***************************************************************************)
SetPeriodRule ==
    (/\ pc = "select"
     /\ backup_rx # <<>>
     /\ backup_rx' = Tail(backup_rx)
     /\ Head(backup_rx).tag = "SetPeriod") =>
        /\ backup_period' = Head(backup_rx).period
        /\ counter' = counter
        /\ last'.backup = "none"
        /\ pc' = "select"

C20_SetPeriodReplacesPeriodOnly == [][SetPeriodRule]_vars

\* SetPeriod(None) was received with the counter at 2: the counter is still 2
C20_Witness ==
    /\ last.ev = "recv"
    /\ last.instr = SetPeriod(NoneNum)
    /\ last.backup = "none"
    /\ backup_period = NoneNum
    /\ counter = 2
    /\ pc = "select"

(***************************************************************************)
(* C21: BackupNow received while not paused makes exactly one backup,      *)
(* whatever the instance state, the period and the counter are, and leaves *)
(* period and counter unchanged.                                           *)
(***************************************************************************)
BackupNowRule ==
    (/\ pc = "select"
     /\ backup_rx # <<>>
     /\ backup_rx' = Tail(backup_rx)
     /\ Head(backup_rx) = BackupNow) =>
        /\ last'.backup = "now"
        /\ backup_period' = backup_period
        /\ counter' = counter
        /\ pc' = "select"

C21_BackupNowBacksUpOnly == [][BackupNowRule]_vars

\* BackupNow made a backup with the instance Stopped, no period and counter 0
C21_Witness ==
    /\ last.ev = "recv"
    /\ last.instr = BackupNow
    /\ last.backup = "now"
    /\ ObservedState(task_state, instance_state) = "Stopped"
    /\ backup_period = NoneNum
    /\ counter = 0

(***************************************************************************)
(* C22: the task takes the instructions in the order they were sent, each  *)
(* exactly once, under every interleaving of sends and ticks: what it has  *)
(* taken, followed by what waits in the channel, is what was sent.         *)
(***************************************************************************)
C22_ConsumedInSendOrder == fifo.consumed \o backup_rx = fifo.sent

\* three instructions were sent, two of them taken in order with ticks in
\* between, the third waits
C22_Witness ==
    /\ fifo.sent = <<SetPeriod(SomeNum(1)), BackupNow, Pause>>
    /\ fifo.consumed = <<SetPeriod(SomeNum(1)), BackupNow>>
    /\ backup_rx = <<Pause>>
    /\ last.ev = "tick"

(***************************************************************************)
(* C27: the instance state changes only along Stopped -> Starting ->       *)
(* Running -> Stopping -> Stopped and the crash edge Running -> Stopped;   *)
(* after a crash the instance moves Stopped -> Starting by itself iff      *)
(* restart_on_crash is true, and else remains Stopped; every transition    *)
(* emits its lifecycle event.                                              *)
(***************************************************************************)
LifecycleEdges ==
    {<<"Stopped", "Starting">>, <<"Starting", "Running">>, <<"Running", "Stopping">>,
     <<"Stopping", "Stopped">>, <<"Running", "Stopped">>}

LifecycleRule ==
    instance_state' # instance_state =>
        /\ <<instance_state, instance_state'>> \in LifecycleEdges
        /\ lifecycle'.events # <<>>
        /\ lifecycle'.events[Len(lifecycle'.events)] =
               CASE <<instance_state, instance_state'>> = <<"Stopped", "Starting">>
                        -> "InstanceStarting"
                 [] <<instance_state, instance_state'>> = <<"Starting", "Running">>
                        -> "InstanceStarted"
                 [] <<instance_state, instance_state'>> = <<"Running", "Stopping">>
                        -> "InstanceStopping"
                 [] <<instance_state, instance_state'>> = <<"Stopping", "Stopped">>
                        -> "InstanceStopped"
                 [] OTHER -> "InstanceError"
        /\ lifecycle'.auto <=>
               (instance_state = "Stopped" /\ lifecycle.crashed /\ lifecycle.restart_on_crash)

C27_LifecycleStateMachine ==
    /\ [][LifecycleRule]_vars
    /\ (lifecycle.crashed /\ lifecycle.restart_on_crash) ~> (instance_state = "Starting")

\* after a crash with restart_on_crash the instance is Starting again by itself
C27_Witness ==
    /\ instance_state = "Starting"
    /\ lifecycle.auto
    /\ lifecycle.restart_on_crash
    /\ Len(lifecycle.events) >= 3
    /\ SubSeq(lifecycle.events, Len(lifecycle.events) - 2, Len(lifecycle.events)) =
           <<"InstanceStarted", "InstanceError", "InstanceStarting">>

C17_InferredTypeAcceptsItsVariant ==
    (tc_ret # NotCalled /\ tc_type # NoType /\ tc_value.tag = tc_from.tag) => IsOk(tc_ret)

(***************************************************************************)
(* C17 as the code has it: for every value v that is not an Enum,          *)
(* type_check(infer_type(v), w) succeeds for every value w of the variant  *)
(* of v; for an Enum v the inferred type has no options, and type_check    *)
(* refuses every Enum w, v itself included, with "Value is not in enum".   *)
(***************************************************************************)
C17_InferredTypeAcceptsItsVariantButEnum ==
    (tc_ret # NotCalled /\ tc_type # NoType /\ tc_value.tag = tc_from.tag) =>
        IF tc_from.tag = "Enum"
        THEN tc_ret = Err("BadRequest", "Value is not in enum")
        ELSE IsOk(tc_ret)

\* the type inferred from an Enum value was checked against that value
C17_Witness ==
    /\ tc_from = VEnum(<<"x">>)
    /\ tc_type = infer_type(tc_from)
    /\ tc_value = tc_from
    /\ tc_ret = Err("BadRequest", "Value is not in enum")

(***************************************************************************)
(* C13: validate_setting(m) returns Ok iff set_optional_value(m) would     *)
(* return Ok on the same setting, and it leaves the setting unchanged.     *)
(***************************************************************************)
C13_ValidateAgreesWithSetOptionalValue ==
    setting_call.op = "validate_setting" =>
        /\ IsOk(setting_call.ret)
               <=> IsOk(set_optional_value(setting_call.old, setting_call.arg).ret)
        /\ setting = setting_call.old

(***************************************************************************)
(* C14: after the constructors and any sequence of set_value and           *)
(* set_optional_value calls (the calls update_setting, set_setting_value   *)
(* and update_setting_value make on the stored setting), a setting with    *)
(* is_required = true has a value.                                         *)
(***************************************************************************)
C14_RequiredSettingHasValue == setting.is_required => IsSome(setting.value)

\* None was refused on a required mutable setting, which still has its value
C14_Witness ==
    /\ setting_call.op = "set_optional_value"
    /\ setting_call.arg = NoValue
    /\ setting_call.old.is_required
    /\ setting_call.old.is_mutable
    /\ setting_call.ret = Err("BadRequest", "Setting is required")
    /\ setting.is_required
    /\ IsSome(setting.value)

(***************************************************************************)
(* C18: on a mutable String setting with the regex ^[a-z]+$,               *)
(* set_value(String "abc") succeeds and stores it, set_value(String "ABC") *)
(* fails with BadRequest and leaves the value unchanged, and               *)
(* set_value(Integer 42) fails with the type-mismatch error, which is not  *)
(* the error of the regex failure.                                         *)
(***************************************************************************)
C18_RegexSettingEndToEnd ==
    (/\ setting_call.op = "set_value"
     /\ setting_call.old.is_mutable
     /\ setting_call.old.value_type = TString(SomeStr(Re_lower))) =>
        /\ setting_call.arg = VString(Str_abc) =>
               /\ IsOk(setting_call.ret)
               /\ setting.value = VString(Str_abc)
        /\ setting_call.arg = VString(Str_ABC) =>
               /\ setting_call.ret.kind = "BadRequest"
               /\ setting.value = setting_call.old.value
        /\ setting_call.arg = VInteger(42) =>
               /\ setting_call.ret = Err("BadRequest", "Type mismatch")
               /\ setting_call.ret # set_value(setting_call.old, VString(Str_ABC)).ret
               /\ setting.value = setting_call.old.value

\* "abc" was stored, and then Integer 42 was refused as a type mismatch
C18_Witness ==
    /\ setting_call.op = "set_value"
    /\ setting_call.old.is_mutable
    /\ setting_call.old.value_type = TString(SomeStr(Re_lower))
    /\ setting_call.arg = VInteger(42)
    /\ setting_call.ret = Err("BadRequest", "Type mismatch")
    /\ setting.value = VString(Str_abc)

(***************************************************************************)
(* Claims about SectionManifest                                            *)
(***************************************************************************)

\* C8: add_setting(s) fails iff s's id is already in the section and
\* set_setting(s) fails iff it is not; a failing call leaves the settings map
\* unchanged, a succeeding call leaves the map holding s under s's id with
\* every other entry unchanged.
C8_AddAndSetSetting ==
    LET s == section_call.arg
        before == section_call.old.settings
        present == s.setting_id \in DOMAIN before
        after == section.settings
    IN /\ (section_call.op = "add_setting") => (IsErr(section_call.ret) <=> present)
       /\ (section_call.op = "set_setting") => (IsErr(section_call.ret) <=> ~present)
       /\ (section_call.op \in {"add_setting", "set_setting"}) =>
             IF IsErr(section_call.ret)
             THEN after = before
             ELSE /\ DOMAIN after = DOMAIN before \cup {s.setting_id}
                  /\ after[s.setting_id] = s
                  /\ \A k \in DOMAIN before : k # s.setting_id => after[k] = before[k]

\* add_setting put a second setting into the section
C8_Witness ==
    /\ section_call.op = "add_setting"
    /\ IsOk(section_call.ret)
    /\ DOMAIN section_call.old.settings = {"k2"}
    /\ DOMAIN section.settings = {"k1", "k2"}
    /\ section.settings["k2"] = section_call.old.settings["k2"]


(***************************************************************************)
(* C12: validate_manifest(candidate) returns Ok iff every section id of    *)
(* the candidate is in the live manifest, every setting id of each         *)
(* candidate section is in the live section of that id, and every          *)
(* candidate value passes validate_setting of its setting; the live        *)
(* manifest is not modified.                                               *)
(***************************************************************************)
AllCandidateValuesValid(live, candidate) ==
    \A sid \in DOMAIN candidate :
        /\ sid \in DOMAIN live.setting_sections
        /\ \A id \in DOMAIN candidate[sid] :
               /\ id \in DOMAIN live.setting_sections[sid].settings
               /\ IsOk(validate_setting(live.setting_sections[sid].settings[id],
                                        candidate[sid][id]))

C12_ValidateManifestOkIffAllValid ==
    manifest_call.op = "validate_manifest" =>
        /\ IsOk(manifest_call.ret)
               <=> AllCandidateValuesValid(manifest_call.old, manifest_call.candidate)
        /\ manifest = manifest_call.old

\* a candidate of two values for two settings of the section was accepted
C12_Witness ==
    /\ manifest_call.op = "validate_manifest"
    /\ IsOk(manifest_call.ret)
    /\ manifest = manifest_call.old
    /\ DOMAIN manifest_call.candidate = {"s1"}
    /\ manifest_call.candidate["s1"] = [k \in SettingIds |-> VInteger(1)]

(***************************************************************************)
(* C11: a multi-setting update is all-or-nothing: when validate_manifest   *)
(* accepted the candidate, every set_setting_value that follows succeeds,  *)
(* so no update ends with a value refused after validation.                *)
(***************************************************************************)
C11_ValidatedUpdateSucceeds ==
    (manifest_call.op = "update_manifest" /\ IsOk(manifest_call.validated)) =>
        IsOk(manifest_call.ret)

(***************************************************************************)
(* C15: a setting stored with is_mutable = false keeps its value under its *)
(* setting id through every SectionManifest and ConfigurableManifest       *)
(* operation.                                                              *)
(***************************************************************************)
Stored(m, sid, id) == m.setting_sections[sid].settings[id]

ImmutableValueKept(before, after) ==
    \A sid \in DOMAIN before.setting_sections :
        \A id \in DOMAIN before.setting_sections[sid].settings :
            ~Stored(before, sid, id).is_mutable =>
                /\ has_setting(after, sid, id)
                /\ Stored(after, sid, id).value = Stored(before, sid, id).value

C15_ImmutableValueNeverChanges == [][ImmutableValueKept(manifest, manifest')]_vars

(***************************************************************************)
(* C15 as the code has it: update_setting, set_setting_value and           *)
(* update_setting_value called on a setting whose is_mutable is false at   *)
(* the call fail and leave the manifest as it was; add_setting leaves an   *)
(* existing entry as it was; set_setting_mut changes the flag only;        *)
(* set_setting and insert_setting, when they succeed, store the given      *)
(* setting under its id whatever the is_mutable of the entry replaced.     *)
(***************************************************************************)
ValueSetters == {"update_setting", "set_setting_value", "update_setting_value"}
Replacers == {"section.set_setting", "set_setting", "insert_setting"}

C15_ImmutableGuardsValueSettersOnly ==
    LET c == manifest_call
        held == has_setting(c.old, c.section_id, c.setting_id)
    IN /\ (c.op \in ValueSetters /\ held /\ ~Stored(c.old, c.section_id, c.setting_id).is_mutable)
              => (IsErr(c.ret) /\ manifest = c.old)
       /\ (c.op = "add_setting" /\ held) => manifest = c.old
       /\ (c.op = "set_setting_mut" /\ held)
              => manifest = [c.old EXCEPT
                     !.setting_sections[c.section_id].settings[c.setting_id].is_mutable = c.flag]
       /\ (c.op \in Replacers /\ IsOk(c.ret))
              => manifest = [c.old EXCEPT
                     !.setting_sections[c.section_id].settings =
                         insert(@, c.setting.setting_id, c.setting)]

\* a value setter was refused on an immutable Integer setting that was, in
\* an earlier step, given another value while it was mutable
C15_Witness ==
    /\ manifest_call.op \in ValueSetters
    /\ manifest_call.value = VInteger(1)
    /\ has_setting(manifest_call.old, manifest_call.section_id, manifest_call.setting_id)
    /\ ~Stored(manifest_call.old, manifest_call.section_id, manifest_call.setting_id).is_mutable
    /\ Stored(manifest, manifest_call.section_id, manifest_call.setting_id).value = VInteger(1)
    /\ IsErr(manifest_call.ret)


(***************************************************************************)
(* C16: adding a setting whose id the section already holds fails with     *)
(* kind AlreadyExists or Conflict, and every operation that names a        *)
(* section or setting the manifest does not hold fails with kind NotFound. *)
(***************************************************************************)
NamesUnknown(c) ==
    \/ /\ c.op \in {"update_setting", "set_setting_value", "update_setting_value"}
       /\ ~has_setting(c.old, c.section_id, c.setting_id)
    \/ /\ c.op = "section.set_setting"
       /\ ~has_setting(c.old, c.section_id, c.setting.setting_id)
    \/ /\ c.op = "set_setting"
       /\ ~has_setting(c.old, c.section_id, c.setting.setting_id)
    \/ /\ c.op = "validate_manifest"
       /\ c.ret.source \in {"Section not found", "Setting not found"}

C16_ErrorKindsFollowTaxonomy ==
    /\ (/\ manifest_call.op = "add_setting"
        /\ has_setting(manifest_call.old, "s1", manifest_call.setting.setting_id))
           => manifest_call.ret.kind \in {"AlreadyExists", "Conflict"}
    /\ NamesUnknown(manifest_call) => manifest_call.ret.kind = "NotFound"


(***************************************************************************)
(* Setup and restore of an instance directory                              *)
(***************************************************************************)

\* the JSON type each key of a RestoreConfig document must have
RequiredType ==
    [name |-> "string", version |-> "string", description |-> "string",
     port |-> "number", auto_start |-> "bool", restart_on_crash |-> "bool",
     has_started |-> "bool"]

\* the file is a JSON object that fits struct RestoreConfig
WellFormed(file) ==
    /\ file.kind = "object"
    /\ \A k \in DOMAIN RequiredType :
           /\ k \in DOMAIN file.fields
           /\ file.fields[k].t = RequiredType[k]
           /\ file.fields[k].t = "number" => file.fields[k].n >= 0
    /\ "backup_period" \in DOMAIN file.fields =>
           \/ file.fields["backup_period"].t = "null"
           \/ file.fields["backup_period"].t = "number" /\ file.fields["backup_period"].n >= 0

\* the call returned an Err to its caller
ReturnedErr == setup_call.ret.kind \notin {"Ok", "panic"}

\* C24: restore on a directory whose config file is missing or malformed
\* returns an error, returns no instance and has started no backup task
C24_BadConfigFailsRestoreBeforeTask ==
    (setup_call.op = "restore" /\ ~ WellFormed(setup_call.before.config)) =>
        (ReturnedErr /\ setup_call.instance = <<>> /\ setup_call.tasks = <<>>)

C24_Witness ==
    /\ setup_call.op = "restore"
    /\ setup_call.fault = "none"
    /\ setup_call.before.config.kind = "object"
    /\ "has_started" \notin DOMAIN setup_call.before.config.fields
    /\ ReturnedErr
    /\ setup_call.tasks = <<>>

\* the step of new in which each failing operation lies
FailingStep ==
    [download |-> 1, unzip |-> 2, remove_zip |-> 3, create |-> 4, persist |-> 5,
     open |-> 6, read_properties |-> 6]

\* C25: when an operation of new fails, new returns an error and no instance,
\* and the steps it took are those up to the step that failed, in order
C25_AnyStepFailureAborts ==
    (/\ setup_call.op = "new"
     /\ setup_call.fault \in DOMAIN FailingStep
     /\ setup_call.ret.kind # "panic") =>
        (/\ ReturnedErr
         /\ setup_call.instance = <<>>
         /\ setup_call.steps = SubSeq(SetupSteps, 1, FailingStep[setup_call.fault]))

\* the backup_period a config file holds
PersistedPeriod(file) ==
    IF "backup_period" \in DOMAIN file.fields /\ file.fields["backup_period"].t = "number"
    THEN SomeNum(file.fields["backup_period"].n)
    ELSE NoneNum

\* C26: a restore that succeeds returns an instance that is Stopped and has
\* no child process, and has started exactly one backup task, whose period
\* is the persisted backup_period and whose counter is 0
C26_RestoredInstanceIsStoppedWithOneTask ==
    (setup_call.op = "restore" /\ IsOk(setup_call.ret)) =>
        (/\ Len(setup_call.instance) = 1
         /\ setup_call.instance[1].state = "Stopped"
         /\ setup_call.instance[1].process = NoneStr
         /\ Len(setup_call.tasks) = 1
         /\ setup_call.tasks[1].backup_period = PersistedPeriod(setup_call.before.config)
         /\ setup_call.tasks[1].counter = 0)

C26_Witness ==
    /\ setup_call.op = "restore"
    /\ IsOk(setup_call.ret)
    /\ PersistedPeriod(setup_call.before.config) = SomeNum(60)
    /\ setup_call.tasks = <<[backup_period |-> SomeNum(60), counter |-> 0]>>
    /\ setup_call.instance[1].state = "Stopped"

\* C30: after a new that succeeds, the config of the restored instance has
\* the name, version, port and backup_period of the SetupConfig, its
\* description or "", its auto_start and restart_on_crash or false, and
\* has_started false
C30_PersistedConfigRoundTripsSetupInput ==
    (setup_call.op = "new" /\ IsOk(setup_call.ret)) =>
        LET config == setup_call.config[1]
            persisted == setup_call.instance[1].config
        IN  /\ persisted.name = config.name
            /\ persisted.version = config.version
            /\ persisted.port = config.port
            /\ persisted.backup_period = config.backup_period
            /\ persisted.description =
                   (IF config.description.some THEN config.description.v ELSE "")
            /\ persisted.auto_start = (config.auto_start.some /\ config.auto_start.v)
            /\ persisted.restart_on_crash =
                   (config.restart_on_crash.some /\ config.restart_on_crash.v)
            /\ persisted.has_started = FALSE
            /\ from_reader(disk.config).value = <<persisted>>

C30_Witness ==
    /\ setup_call.op = "new"
    /\ IsOk(setup_call.ret)
    /\ ~ setup_call.config[1].description.some
    /\ setup_call.config[1].backup_period = SomeNum(60)
    /\ setup_call.instance[1].config.description = ""
    /\ setup_call.instance[1].config.backup_period = SomeNum(60)
    /\ ~ setup_call.instance[1].config.has_started


(***************************************************************************)
(* Locks of the request handlers                                           *)
(***************************************************************************)

\* the lock a task is waiting for at a lock().await
WaitsFor(t) ==
    CASE At(t, "lock_users") -> {"users"}
      [] At(t, "lock_instances") -> {"instances"}
      [] At(t, "lock_instance") -> {handler[t].uuid}
      [] OTHER -> {}

\* every task of the set waits for a lock that a task of the set holds
Deadlocked(S) == \A t \in S : \E l \in WaitsFor(t), u \in S : l \in guards[u]

\* C28: a handler task that requests the lock of the instance collection
\* holds neither the users lock nor the lock of an instance, and no set of
\* handler tasks is deadlocked
C28_LockDiscipline ==
    /\ \A t \in Tasks : At(t, "lock_instances") => guards[t] \cap ({"users"} \cup Uuids) = {}
    /\ \A t \in Tasks : guards[t] \subseteq Locks
    /\ \A S \in SUBSET Tasks : S # {} => ~ Deadlocked(S)

C28_Witness ==
    /\ At(1, "operate") /\ guards[1] = {"instances", "a"}
    /\ At(2, "lock_instances") /\ guards[2] = {}
    /\ At(3, "auth") /\ guards[3] = {"users"}

\* C29: while a handler reads a setting of an instance, no other handler of
\* a settings request waits for a lock the reading handler holds
C29_SettingsReadBlocksNoSettingsRequest ==
    \A r \in Tasks, w \in Tasks :
        (/\ r # w
         /\ handler[r].kind = "get_instance_setting"
         /\ At(r, "operate")
         /\ handler[w].kind \in ConfigHandlers) =>
            WaitsFor(w) \cap guards[r] = {}

(***************************************************************************)
(* Failures of restore and new that must come back as error values         *)
(***************************************************************************)

\* C31: when restore finds a well-formed config and no properties file, and
\* writing the properties file fails, restore returns an error value and no
\* instance
C31_PropertiesWriteFailureIsReturned ==
    (/\ setup_call.op = "restore"
     /\ setup_call.fault = "write_properties"
     /\ ~ setup_call.before.properties
     /\ WellFormed(setup_call.before.config)) =>
        (ReturnedErr /\ setup_call.instance = <<>>)

\* C34: new never panics: a SetupConfig whose version is not "latest" and
\* that has no version_url makes it return an error value, and every other
\* SetupConfig gives a download URL
C34_NewResolvesUrlOrReturnsErr ==
    setup_call.op = "new" =>
        /\ setup_call.ret.kind # "panic"
        /\ (setup_call.config[1].version # "latest" /\ ~ setup_call.config[1].version_url.some)
               => ReturnedErr

(***************************************************************************)
(* The backup task: the state it reads, the paused mode, the counter       *)
(***************************************************************************)

\* C32: a tick taken while the state of the returned instance is Running
\* observes Running: with a period configured it counts the second or makes
\* the periodic backup
C32_TickObservesInstanceState ==
    [][(last'.ev = "tick" /\ instance_state = "Running") =>
           /\ ObservedState(task_state, instance_state) = "Running"
           /\ backup_period.some =>
                  (last'.backup = "periodic" \/ counter' = counter + 1)]_vars

PausedRule ==
    /\ pc = "paused" =>
           /\ last'.backup = "none"
           /\ last'.ev # "tick"
           /\ counter' = counter
           /\ backup_period' = backup_period
           /\ backup_period = paused_period
    /\ (pc = "select" /\ last'.ev = "recv" /\ last'.instr = Resume) =>
           /\ pc' = "select"
           /\ last'.backup = "none"
           /\ counter' = counter
           /\ backup_period' = backup_period

\* C33: while the task is paused no step makes a backup, no tick is served
\* and period and counter stay what they were when Pause was consumed; a
\* Resume consumed while not paused changes nothing
C33_PausedTaskDoesNothing == [][PausedRule]_vars

C33_Witness ==
    /\ pc = "paused"
    /\ last.ev = "drop"
    /\ last.instr = BackupNow
    /\ task_state = "Running"
    /\ backup_period = SomeNum(1)
    /\ backup_rx = <<Resume>>

\* C39: the counter stays below the largest period, so counter + 1 fits; after
\* a tick with period Some(p) while Running it is 0 or below p; and a tick
\* while Running with a period not above the counter backs up and resets it
C39_CounterBound ==
    /\ counter < MaxPeriod
    /\ (last.ev = "tick" /\ backup_period.some /\ task_state = "Running") =>
           (counter = 0 \/ counter < backup_period.v)
    /\ (last.ev = "tick" /\ last.backup = "periodic") => counter = 0

SetPeriodBelowCounterRule ==
    (/\ last'.ev = "tick"
     /\ task_state = "Running"
     /\ backup_period.some
     /\ backup_period.v <= counter) =>
        (last'.backup = "periodic" /\ counter' = 0)

C39_CounterBoundAndReset == []C39_CounterBound /\ [][SetPeriodBelowCounterRule]_vars

C39_Witness ==
    /\ last.ev = "recv"
    /\ last.instr = SetPeriod(SomeNum(1))
    /\ counter = 2
    /\ task_state = "Running"

(***************************************************************************)
(* Replacing a setting, and the keys of a section                          *)
(***************************************************************************)

\* C35: ConfigurableManifest.set_setting succeeds only if the section holds
\* an entry under the setting_id argument, and then the manifest is the old
\* one with exactly that entry replaced by the given setting
C35_SetSettingReplacesNamedEntry ==
    LET c == manifest_call
    IN  (c.op = "set_setting" /\ IsOk(c.ret)) =>
            /\ has_setting(c.old, c.section_id, c.setting_id)
            /\ manifest = [c.old EXCEPT
                   !.setting_sections[c.section_id].settings[c.setting_id] = c.setting]

\* every entry of every section is keyed by the setting_id of its setting
KeyedById(m) ==
    \A sid \in DOMAIN m.setting_sections :
        \A id \in DOMAIN m.setting_sections[sid].settings :
            m.setting_sections[sid].settings[id].setting_id = id

\* C40: every entry of the section is keyed by the setting_id of the setting
\* it holds, and update_setting leaves setting_id and default_value of the
\* entry as they were
C40_EntriesKeyedByTheirId ==
    LET c == manifest_call
    IN  /\ KeyedById(manifest)
        /\ (c.op = "update_setting" /\ has_setting(c.old, c.section_id, c.setting_id)) =>
               /\ DOMAIN manifest.setting_sections[c.section_id].settings =
                      DOMAIN c.old.setting_sections[c.section_id].settings
               /\ Stored(manifest, c.section_id, c.setting_id).setting_id = c.setting_id
               /\ Stored(manifest, c.section_id, c.setting_id).default_value =
                      Stored(c.old, c.section_id, c.setting_id).default_value

C40_Witness ==
    /\ manifest_call.op = "update_setting"
    /\ IsOk(manifest_call.ret)
    /\ DOMAIN manifest.setting_sections["s1"].settings = {"k1", "k2"}
    /\ Stored(manifest, "s1", "k2").value = VInteger(1)
    /\ Stored(manifest_call.old, "s1", "k2").value # VInteger(1)

(***************************************************************************)
(* InstanceManager: names and ports of the collection                      *)
(***************************************************************************)

NamesOf(self) == {self.instance_collection[u].name : u \in DOMAIN self.instance_collection}

\* C36: no two instances of the collection have the same name, and a
\* create_instance whose sanitised name is the name of an instance fails and
\* leaves instance_collection and taken_ports as they were
C36_NamesAreUnique ==
    /\ \A u \in DOMAIN manager.instance_collection, v \in DOMAIN manager.instance_collection :
           u # v => manager.instance_collection[u].name # manager.instance_collection[v].name
    /\ (/\ manager_call.op = "create_instance"
        /\ sanitize(manager_call.config[1].name) \in NamesOf(manager_call.old)) =>
           (manager_call.ret.kind = "String" /\ manager = manager_call.old)

C36_Witness ==
    /\ manager_call.op = "create_instance"
    /\ manager_call.config[1].name = <<"a", "/">>
    /\ manager_call.config[1].has_url
    /\ manager_call.fault = "none"
    /\ manager_call.ret.kind = "String"
    /\ NamesOf(manager) = {<<"a">>, <<"b">>}

PortsInUse(self) ==
    {self.instance_collection[u].port.v :
        u \in {x \in DOMAIN self.instance_collection : self.instance_collection[x].port.some}}

\* C37: every instance of the collection has a port, no two have the same
\* port, and a port chosen by create_instance is the lowest port of
\* 25565..25999 that no instance of the collection used
C37_PortsAreUniqueAndLowestFree ==
    /\ \A u \in DOMAIN manager.instance_collection : manager.instance_collection[u].port.some
    /\ \A u \in DOMAIN manager.instance_collection, v \in DOMAIN manager.instance_collection :
           u # v => manager.instance_collection[u].port # manager.instance_collection[v].port
    /\ (/\ manager_call.op = "create_instance"
        /\ IsOk(manager_call.ret)
        /\ ~ manager_call.config[1].port.some) =>
           LET chosen == manager.instance_collection[manager_call.uuid].port.v
           IN  /\ chosen \in FirstPort..(PortLimit - 1)
               /\ chosen \notin PortsInUse(manager_call.old)
               /\ \A port \in FirstPort..(chosen - 1) : port \in PortsInUse(manager_call.old)


(***************************************************************************)
(* C38: set_instance_setting applies a request only for the pairs          *)
(* Null -> BackupPeriod, Number -> BackupPeriod/MinRam/MaxRam/Port,        *)
(* Bool -> AutoStart/RestartOnCrash, String -> Name/Description and        *)
(* Array of strings -> CmdArgs; every other pair fails as a malformed      *)
(* request and leaves the instance as it was; and a number is either       *)
(* rejected or stored exactly as it was sent, never as a different number. *)
(***************************************************************************)
AppliedPairs ==
    {<<"Null", "BackupPeriod">>, <<"Number", "BackupPeriod">>, <<"Number", "MinRam">>,
     <<"Number", "MaxRam">>, <<"Number", "Port">>, <<"Bool", "AutoStart">>,
     <<"Bool", "RestartOnCrash">>, <<"String", "Name">>, <<"String", "Description">>,
     <<"Array", "CmdArgs">>}

ArrayOfStrings(value) == \A i \in DOMAIN value.a : value.a[i].is_str

StoredNumber(self, key) ==
    IF key = "BackupPeriod" THEN self.backup_period
    ELSE SomeNum(IF key = "MaxRam" THEN self.max_ram ELSE IF key = "MinRam" THEN self.min_ram ELSE self.port)

DispatchRule ==
    LET r == setting_request'
    IN  r.key # "none" =>
          /\ (<<r.value.t, r.key>> \notin AppliedPairs \/ (r.value.t = "Array" /\ ~ ArrayOfStrings(r.value)))
                 => r.ret = MalformedRequest /\ locked_instance' = locked_instance
          /\ r.value.t = "Number"
                 => \/ IsErr(r.ret) /\ locked_instance' = locked_instance
                    \/ /\ IsOk(r.ret)
                       /\ r.value.num.n = "PosInt"
                       /\ r.value.num.hi = 0
                       /\ StoredNumber(locked_instance', r.key) = SomeNum(r.value.num.lo)

C38_MismatchRejectedNumberStoredExactly == [][DispatchRule]_vars
=============================================================================
